---------------------------- MODULE Spec2Model ----------------------------
(***************************************************************************)
(* Verification model of the lakehouse profiling and matching engine:      *)
(* the semantic field mapper (normalizer, scorer, pattern detector,        *)
(* SemanticFieldMapper) and the row-level anomaly detectors.               *)
(*                                                                         *)
(* Conventions.                                                            *)
(*  - A name (column name, reference field, alias, token) is a sequence    *)
(*    of one-character strings, so that the character-level code           *)
(*    (regular expressions, SequenceMatcher) can be modelled as written.   *)
(*  - A score is a fixed-point number: the integer s stands for s / One.   *)
(*    Divisions round down.  Every quotient the scorer forms has a         *)
(*    denominator of at most 2 * MaxNameLen, and thresholds and epsilons   *)
(*    are multiples of One / 100, so two distinct scores differ by far     *)
(*    more than 1 / One and every comparison below decides as the exact    *)
(*    rational comparison does.  (IEEE rounding of the Python floats is    *)
(*    not modelled.)                                                       *)
(***************************************************************************)
EXTENDS Integers, Sequences, FiniteSets, TLC

\* ------------------------------------------------------------------------
\* Generic helpers
\* ------------------------------------------------------------------------

Max2(a, b) == IF a >= b THEN a ELSE b

Min2(a, b) == IF a <= b THEN a ELSE b

Range(s) == {s[i] : i \in 1..Len(s)}

RECURSIVE MaxOfSeq(_)
MaxOfSeq(s) == IF Len(s) = 1 THEN s[1] ELSE Max2(s[1], MaxOfSeq(Tail(s)))

\* the fixed-point unit: the score 1.0
One == 1000000

\* n / 100 as a score
Pct(n) == n * (One \div 100)

\* ------------------------------------------------------------------------
\* Characters
\* ------------------------------------------------------------------------

UpperChars == <<"A","B","C","D","E","F","G","H","I","J","K","L","M",
                "N","O","P","Q","R","S","T","U","V","W","X","Y","Z">>

LowerChars == <<"a","b","c","d","e","f","g","h","i","j","k","l","m",
                "n","o","p","q","r","s","t","u","v","w","x","y","z">>

DigitChars == {"0","1","2","3","4","5","6","7","8","9"}

IsUpper(c) == c \in Range(UpperChars)

IsLower(c) == c \in Range(LowerChars)

IsSpace(c) == c = " "

\* str.lower() on one character
LowerChar(c) ==
    IF IsUpper(c) THEN LowerChars[CHOOSE i \in 1..26 : UpperChars[i] = c] ELSE c

\* str.lower()
Lower(s) == [i \in 1..Len(s) |-> LowerChar(s[i])]

\* [a-z0-9_]
IsNormChar(c) == IsLower(c) \/ c \in DigitChars \/ c = "_"

\* [A-Za-z0-9]
IsWordChar(c) == IsLower(c) \/ IsUpper(c) \/ c \in DigitChars

\* ------------------------------------------------------------------------
\* Names
\* ------------------------------------------------------------------------

n_EMAIL == <<"E","M","A","I","L">>
n_email == <<"e","m","a","i","l">>
n_Email == <<"E","m","a","i","l">>
n_e_mail == <<"e","_","m","a","i","l">>
n_mail == <<"m","a","i","l">>
n_contact == <<"c","o","n","t","a","c","t">>
n_phone == <<"p","h","o","n","e">>
n_phone_number == <<"p","h","o","n","e","_","n","u","m","b","e","r">>
n_user_id == <<"u","s","e","r","_","i","d">>
n_user_sp_id == <<"u","s","e","r"," ","i","d">>
n_id == <<"i","d">>
n_text == <<"t","e","x","t">>
n_ab == <<"a","b">>
n_AB == <<"A","B">>
n_ab_id == <<"a","b","_","i","d">>
n_x == <<"x">>
n_no == <<"n","o">>
n_PHONE == <<"P","H","O","N","E">>
n_TELEPHONE == <<"T","E","L","E","P","H","O","N","E">>
n_telephone == <<"t","e","l","e","p","h","o","n","e">>
n_Label == <<"L","a","b","e","l">>
n_label == <<"l","a","b","e","l">>
n_Title == <<"T","i","t","l","e">>
n_title == <<"t","i","t","l","e">>
n_ReviewText == <<"R","e","v","i","e","w","T","e","x","t">>

\* SemanticTypeDetector.PATTERNS, in dict order
PATTERNS == <<"Email", "URL", "UUID", "Date", "DateTime", "Price", "Phone",
              "IP Address", "Credit Card">>

\* the label of a semantic type, as a name
TypeName(label) ==
    CASE label = "Email"       -> <<"E","m","a","i","l">>
      [] label = "URL"         -> <<"U","R","L">>
      [] label = "UUID"        -> <<"U","U","I","D">>
      [] label = "Date"        -> <<"D","a","t","e">>
      [] label = "DateTime"    -> <<"D","a","t","e","T","i","m","e">>
      [] label = "Price"       -> <<"P","r","i","c","e">>
      [] label = "Phone"       -> <<"P","h","o","n","e">>
      [] label = "IP Address"  -> <<"I","P"," ","A","d","d","r","e","s","s">>
      [] label = "Credit Card" -> <<"C","r","e","d","i","t"," ","C","a","r","d">>

\* every name the inputs below are built from
PoolNames ==
    { n_EMAIL, n_email, n_Email, n_e_mail, n_mail, n_contact, n_phone,
      n_phone_number, n_user_id, n_user_sp_id, n_id, n_text }
    \cup {TypeName(PATTERNS[k]) : k \in 1..Len(PATTERNS)}

\* ------------------------------------------------------------------------
\* utils/cleaning.py and semantic_field_mapping/normalize.py
\* ------------------------------------------------------------------------

\* str.strip(): the characters Drop accepts are removed from both ends
Strip(s, Drop(_)) ==
    LET kept == {i \in 1..Len(s) : ~Drop(s[i])}
        first == CHOOSE i \in kept : \A j \in kept : i <= j
        last == CHOOSE i \in kept : \A j \in kept : i >= j
    IN  IF kept = {} THEN << >> ELSE SubSeq(s, first, last)

\* re.sub(r'(?<!^)(?=[A-Z])', '_', s): an underscore before every capital
\* letter that is not the first character
RECURSIVE CamelFrom(_, _)
CamelFrom(s, i) ==
    IF i > Len(s) THEN << >>
    ELSE (IF i > 1 /\ IsUpper(s[i]) THEN <<"_", s[i]>> ELSE <<s[i]>>)
         \o CamelFrom(s, i + 1)

CamelSplit(s) == CamelFrom(s, 1)

\* str.replace(' ', '_')
SpacesToUnderscore(s) == [i \in 1..Len(s) |-> IF s[i] = " " THEN "_" ELSE s[i]]

clean_column_name(name) ==
    SpacesToUnderscore(Lower(CamelSplit(Strip(name, IsSpace))))

\* re.sub(<Bad>+, "_", s): every maximal run of Bad characters becomes one "_"
SubRuns(s, Bad(_)) ==
    LET marked == [i \in 1..Len(s) |->
                     IF ~Bad(s[i]) THEN s[i]
                     ELSE IF i > 1 /\ Bad(s[i - 1]) THEN "" ELSE "_"]
        Kept(c) == c # ""
    IN  SelectSeq(marked, Kept)

NotNormChar(c) == ~IsNormChar(c)

IsUnderscore(c) == c = "_"

NormalizeSteps(name) ==
    LET base == clean_column_name(name)
        sub1 == SubRuns(base, NotNormChar)
        sub2 == SubRuns(sub1, IsUnderscore)
    IN  Strip(sub2, IsUnderscore)

\* The names the model meets, with their normal forms, evaluated once
KnownNames == PoolNames \cup {NormalizeSteps(n) : n \in PoolNames}

NormalizeTable == [n \in KnownNames |-> NormalizeSteps(n)]

normalize_name(name) ==
    IF name \in DOMAIN NormalizeTable THEN NormalizeTable[name]
    ELSE NormalizeSteps(name)

_DEFAULT_STOPWORDS ==
    { <<"i","d">>, <<"i","d","s">>, <<"n","o">>, <<"n","u","m">>, <<"n","r">>,
      <<"c","o","d","e">>, <<"c","d">>, <<"k","e","y">>, <<"f","l","a","g">>,
      <<"i","s">>, <<"h","a","s">>, <<"a","t">>, <<"d","t">>, <<"t","s">>,
      <<"r","e","f">>, <<"u","i","d">> }

\* _WORD_RE.finditer: the maximal runs of [A-Za-z0-9], left to right
RECURSIVE WordRuns(_, _)
WordRuns(s, cur) ==
    IF s = << >> THEN (IF cur = << >> THEN << >> ELSE <<cur>>)
    ELSE IF IsWordChar(Head(s)) THEN WordRuns(Tail(s), Append(cur, Head(s)))
         ELSE (IF cur = << >> THEN << >> ELSE <<cur>>) \o WordRuns(Tail(s), << >>)

NotStopword(t) == t \notin _DEFAULT_STOPWORDS

tokenize(name) == SelectSeq(WordRuns(normalize_name(name), << >>), NotStopword)

\* ------------------------------------------------------------------------
\* semantic_filed_mapping/scorers.py
\* ------------------------------------------------------------------------

jaccard(a, b) ==
    LET sa == Range(a)
        sb == Range(b)
        inter == Cardinality(sa \cap sb)
        union == Cardinality(sa \cup sb)
    IN  IF sa = {} /\ sb = {} THEN 0
        ELSE IF union # 0 THEN (inter * One) \div union ELSE 0

\* difflib.SequenceMatcher (no junk; autojunk needs 200 characters).
\* Index ranges are lo .. hi-1, as the half-open ranges of the library.
RECURSIVE RunLen(_, _, _, _, _, _)
RunLen(a, b, i, j, ahi, bhi) ==
    IF i < ahi /\ j < bhi /\ a[i] = b[j]
    THEN 1 + RunLen(a, b, i + 1, j + 1, ahi, bhi) ELSE 0

\* find_longest_match: the longest common block; among the longest the one
\* starting earliest in a, and among those the one starting earliest in b
find_longest_match(a, b, alo, ahi, blo, bhi) ==
    LET pairs == (alo..(ahi - 1)) \X (blo..(bhi - 1))
        len == [p \in pairs |-> RunLen(a, b, p[1], p[2], ahi, bhi)]
        longest == CHOOSE k \in {len[p] : p \in pairs} :
                      \A p \in pairs : len[p] <= k
        starts == {p \in pairs : len[p] = longest}
        best == CHOOSE p \in starts :
                   \A q \in starts : p[1] < q[1] \/ (p[1] = q[1] /\ p[2] <= q[2])
    IN  IF pairs = {} \/ longest = 0 THEN <<alo, blo, 0>>
        ELSE <<best[1], best[2], longest>>

\* get_matching_blocks, summed: the number of matched characters
RECURSIVE MatchedChars(_, _, _, _, _, _)
RECURSIVE MatchedAround(_, _, _, _, _, _, _)

\* the block m = <<i, j, k>>, and the matches to its left and to its right
MatchedAround(a, b, alo, ahi, blo, bhi, m) ==
    IF m[3] = 0 THEN 0
    ELSE (IF alo < m[1] /\ blo < m[2]
          THEN MatchedChars(a, b, alo, m[1], blo, m[2]) ELSE 0)
         + m[3]
         + (IF m[1] + m[3] < ahi /\ m[2] + m[3] < bhi
            THEN MatchedChars(a, b, m[1] + m[3], ahi, m[2] + m[3], bhi) ELSE 0)

MatchedChars(a, b, alo, ahi, blo, bhi) ==
    MatchedAround(a, b, alo, ahi, blo, bhi,
                  find_longest_match(a, b, alo, ahi, blo, bhi))

\* SequenceMatcher(a=a, b=b).ratio(): 2.0 * matches / length, 1.0 when both empty
SeqRatio(a, b) ==
    LET length == Len(a) + Len(b)
        matches == MatchedChars(a, b, 1, Len(a) + 1, 1, Len(b) + 1)
    IN  IF length # 0 THEN (2 * matches * One) \div length ELSE One

\* dict.get(k) of a dict of lists; an absent key and an empty list are both
\* falsy where the code reads it
Get(d, k) == IF k \in DOMAIN d THEN d[k] ELSE << >>

\* the empty dict
EmptyDict == [k \in {} |-> << >>]

\* synonyms.get(ref) or synonyms.get(ref_n) or []
AliasesOf(synonyms, ref) ==
    IF Get(synonyms, ref) # << >> THEN Get(synonyms, ref)
    ELSE Get(synonyms, normalize_name(ref))

\* the signals of base_name_scores that the two names alone decide, given
\* the normal forms src_n, ref_n and the tokens src_t, ref_t
SignalsOf(src, ref, src_n, ref_n, src_t, ref_t) ==
    [ exact          |-> IF src = ref THEN One ELSE 0,
      norm_exact     |-> IF src_n = ref_n THEN Pct(98) ELSE 0,
      jaccard        |-> jaccard(src_t, ref_t),
      seq            |-> SeqRatio(src_n, ref_n),
      length_penalty |-> IF Len(src_t) = 1 /\ Len(src_t[1]) <= 2 /\ src_n # ref_n
                         THEN -Pct(2) ELSE 0 ]

NameSignals(src, ref) ==
    SignalsOf(src, ref, normalize_name(src), normalize_name(ref),
              tokenize(normalize_name(src)), tokenize(normalize_name(ref)))

\* NameSignals of the names the model meets, evaluated once
NameSignalsTable == [src \in PoolNames |-> [ref \in PoolNames |-> NameSignals(src, ref)]]

\* the synonym signal: src, its normal form or one of its tokens is an alias
SynonymSignal(src, ref, synonyms) ==
    LET src_n == normalize_name(src)
        src_t == tokenize(src_n)
        aliases == AliasesOf(synonyms, ref)
        aliases_n == {normalize_name(x) : x \in Range(aliases)}
    IN  IF /\ DOMAIN synonyms # {}
           /\ \/ src \in Range(aliases)
              \/ src_n \in aliases_n
              \/ \E i \in 1..Len(src_t) : src_t[i] \in aliases_n
        THEN Pct(97) ELSE 0

\* the components dict: the name signals and the synonym signal
Components(names, synonym) ==
    [ exact          |-> names.exact,
      norm_exact     |-> names.norm_exact,
      synonym        |-> synonym,
      jaccard        |-> names.jaccard,
      seq            |-> names.seq,
      length_penalty |-> names.length_penalty ]

base_name_scores(src, ref, synonyms) ==
    Components(IF src \in PoolNames /\ ref \in PoolNames
               THEN NameSignalsTable[src][ref] ELSE NameSignals(src, ref),
               SynonymSignal(src, ref, synonyms))

\* mutant: only the upper clamp is applied
ClampUpperOnly(score) == Min2(One, score)

\* max(0.0, min(1.0, score))
Clamp01(score) == Max2(0, Min2(One, score))

\* components.get(k, 0.0)
Component(components, k) == IF k \in DOMAIN components THEN components[k] ELSE 0

aggregate_score(components, dtype_boost, pattern_boost) ==
    LET base == MaxOfSeq(<<Component(components, "exact"),
                           Component(components, "norm_exact"),
                           Component(components, "synonym"),
                           Component(components, "jaccard"),
                           Component(components, "seq")>>)
        score == Clamp01(base + dtype_boost + pattern_boost
                         + Component(components, "length_penalty"))
    IN  [ score   |-> score,
          details |-> [ components  |-> components,
                        dtype_boost |-> dtype_boost,
                        pattern_boost |-> pattern_boost,
                        base  |-> base,
                        final |-> score ] ]

\* ------------------------------------------------------------------------
\* schema_recognition/inference/semantic.py
\* ------------------------------------------------------------------------

\* A cell is Null or a value.  Text values are the literals below; what the
\* code does with a text value is decided by the regular expressions it
\* matches, tabulated in RegexMatches.
Null == "<null>"

\* str(val).strip() of a text literal
StripValue(v) == IF v \in {"", "  "} THEN "" ELSE v

\* pattern.match(val_str): the patterns each literal matches
RegexMatches(label, v) ==
    CASE v \in {"a@example.com", "b@example.com"} -> label = "Email"
      [] v \in {"123", "456", "$9.99"}            -> label = "Price"
      [] v \in {"0", "1", "12", "1.5"}            -> label = "Price"
      [] v = "5551234567"                         -> label \in {"Price", "Phone"}
      [] v = "555-123-4567"                       -> label = "Phone"
      [] v = "4111111111111111"                   -> label \in {"Price", "Credit Card"}
      [] v \in {"2023-01-15", "1990-05-15"}       -> label = "Date"
      [] v = "2023-01-15 10:30:00"                -> label = "DateTime"
      [] v = "192.168.0.1"                        -> label = "IP Address"
      [] v = "https://x.org"                      -> label = "URL"
      [] OTHER                                    -> FALSE

NotNull(v) == v # Null

\* series.drop_nulls().head(n).to_list()
Sample(values, n) ==
    LET kept == SelectSeq(values, NotNull)
    IN  SubSeq(kept, 1, Min2(n, Len(kept)))

\* no type detected
None == "<none>"

\* the first pattern of PATTERNS whose count / total exceeds 0.5
_match_type(values) ==
    LET total == Len(values)
        count(label) ==
            Cardinality({i \in 1..total :
                            /\ StripValue(values[i]) # ""
                            /\ RegexMatches(label, StripValue(values[i]))})
        passing == {k \in 1..Len(PATTERNS) : 2 * count(PATTERNS[k]) > total}
    IN  IF values = << >> \/ passing = {} THEN None
        ELSE PATTERNS[CHOOSE k \in passing : \A j \in passing : k <= j]

\* SemanticTypeDetector.detect on the one-column frame {col: series}:
\* the detected type of the column, or None
DetectColumn(series, sample_size) ==
    IF series.dtype # "Utf8" THEN None
    ELSE LET sample == Sample(series.values, sample_size)
         IN  IF sample = << >> THEN None ELSE _match_type(sample)

\* detect()'s default sample_size
DefaultSampleSize == 200

\* df[col] as _match_type reads it: the dtype, and the texts or Null
TextSeries(df, col) ==
    [ dtype  |-> df.dtypes[col],
      values |-> [i \in 1..Len(df.rows) |->
                     IF "str" \in DOMAIN df.rows[i][col]
                     THEN df.rows[i][col].str ELSE Null] ]

\* SemanticTypeDetector.detect: semantic_types, the columns a type was
\* detected for
detect(df, sample_size) ==
    LET Typed(col) == DetectColumn(TextSeries(df, col), sample_size)
    IN  [col \in {c \in Range(df.columns) : Typed(c) # None} |-> Typed(col)]


\* ------------------------------------------------------------------------
\* semantic_field_mapping/mapper.py
\* ------------------------------------------------------------------------

\* the dtypes that earn the dtype boost
NumericDtypes == {"Int8", "Int16", "Int32", "Int64", "UInt8", "UInt16",
                  "UInt32", "UInt64", "Float32", "Float64"}

\* series=None
NoSeries == [dtype |-> "<none>", values |-> << >>]

\* the pattern boost of one reference field, given the detected type
PatternBoost(synonyms, ref, detected_type) ==
    IF detected_type = None THEN 0
    ELSE LET ref_n == normalize_name(ref)
             type_n == normalize_name(TypeName(detected_type))
             aliases_n == {normalize_name(x) : x \in Range(AliasesOf(synonyms, ref))}
         IN  IF ref_n = type_n THEN Pct(50)
             ELSE IF type_n \in aliases_n THEN Pct(50) ELSE 0

\* list.sort(key=score, reverse=True): stable, descending
RECURSIVE InsertDesc(_, _)
InsertDesc(sorted, c) ==
    IF sorted = << >> THEN <<c>>
    ELSE IF Head(sorted).score >= c.score
         THEN <<Head(sorted)>> \o InsertDesc(Tail(sorted), c)
         ELSE <<c>> \o sorted

\* mutant: the candidates stay in the order of the reference fields
Unsorted(cands) == cands

RECURSIVE SortDesc(_)
SortDesc(cands) ==
    IF cands = << >> THEN << >>
    ELSE InsertDesc(SortDesc(SubSeq(cands, 1, Len(cands) - 1)), cands[Len(cands)])

\* Candidate(ref=ref, score=score, details=details)
Candidate(ref, agg) == [ref |-> ref, score |-> agg.score, details |-> agg.details]

\* the candidates of one column, best first
_scores_for_column(self, col_name, series) ==
    LET detected_type == IF series = NoSeries THEN None
                         ELSE DetectColumn(series, DefaultSampleSize)
        dtype_boost == IF series # NoSeries /\ series.dtype \in NumericDtypes
                       THEN Pct(2) ELSE 0
        Cand(ref) ==
            Candidate(ref,
                      aggregate_score(base_name_scores(col_name, ref, self.synonyms),
                                      dtype_boost,
                                      PatternBoost(self.synonyms, ref, detected_type)))
    IN  SortDesc([i \in 1..Len(self.reference_fields) |->
                    Cand(self.reference_fields[i])])

\* d[k] = v on a dict
Put(d, k, v) == [x \in (DOMAIN d) \cup {k} |-> IF x = k THEN v ELSE d[x]]

\* {c.ref: c.score for c in cands}: a later candidate overwrites an earlier
\* one of the same name
RECURSIVE ScoreDict(_)
ScoreDict(cands) ==
    IF cands = << >> THEN [k \in {} |-> 0]
    ELSE Put(ScoreDict(SubSeq(cands, 1, Len(cands) - 1)),
             cands[Len(cands)].ref, cands[Len(cands)].score)

\* the number of candidates reported for an ambiguous column
TopK == 5

EmptyResult == [ mapping   |-> [k \in {} |-> 0],
                 ambiguous |-> [k \in {} |-> 0],
                 unmapped  |-> << >>,
                 scores    |-> [k \in {} |-> 0] ]

\* df[col] if the input is a frame, else None
SeriesOf(table, col) ==
    IF table.kind = "df" /\ col \in DOMAIN table.series
    THEN table.series[col] ELSE NoSeries

\* mutant: a score equal to the threshold is rejected
AcceptedStrict(self, best) == best.score > self.threshold

\* accepted = best.score >= self.threshold
Accepted(self, best) == best.score >= self.threshold

\* second is not None and (best.score - second.score) <= self.epsilon
WithinEpsilon(self, cands) ==
    Len(cands) > 1 /\ (cands[1].score - cands[2].score) <= self.epsilon

\* mutant: the duplicate-reference check is missing
SameRefNever(a, b) == FALSE

\* best.ref.lower() == second.ref.lower()
SameRefIgnoringCase(a, b) == Lower(a) = Lower(b)

\* mutant: every candidate is listed
AllCandidates(cands) ==
    [i \in 1..Len(cands) |-> [target |-> cands[i].ref, score |-> cands[i].score]]

\* cands[: min(5, len(cands))] as {target, score} entries
TopCandidates(cands) ==
    [i \in 1..Min2(TopK, Len(cands)) |->
        [target |-> cands[i].ref, score |-> cands[i].score]]

\* the branch the loop body takes once the candidates are ranked
Outcome(self, cands) ==
    IF cands = << >> THEN "unmapped"
    ELSE IF ~Accepted(self, cands[1]) THEN "unmapped"
    ELSE IF /\ WithinEpsilon(self, cands)
            /\ ~self.force
            /\ ~SameRefIgnoringCase(cands[1].ref, cands[2].ref)
         THEN "ambiguous"
         ELSE "mapping"

\* result.mapping[col] = {target, score, reason}
WithMapping(r, col, best) ==
    [r EXCEPT !.mapping = Put(@, col, [target |-> best.ref, score |-> best.score,
                                       reason |-> best.details])]

\* mutant: the `continue` after the unmapped append is missing, so a
\* rejected column is recorded as mapped too
LoopBodyFallThrough(self, col, cands, outcome, r1) ==
    CASE outcome = "unmapped" /\ cands = << >> ->
           [r1 EXCEPT !.unmapped = Append(@, col)]
      [] outcome = "unmapped" /\ cands # << >> ->
           WithMapping([r1 EXCEPT !.unmapped = Append(@, col)], col, cands[1])
      [] outcome = "ambiguous" ->
           [r1 EXCEPT !.ambiguous = Put(@, col, TopCandidates(cands))]
      [] outcome = "mapping" -> WithMapping(r1, col, cands[1])

\* the branches of the loop body, r1 being the result with the scores of the
\* column recorded
LoopBody(self, col, cands, outcome, r1) ==
    CASE outcome = "unmapped" ->
           [r1 EXCEPT !.unmapped = Append(@, col)]
      [] outcome = "ambiguous" ->
           [r1 EXCEPT !.ambiguous = Put(@, col, TopCandidates(cands))]
      [] outcome = "mapping" -> WithMapping(r1, col, cands[1])

\* the loop body on the ranked candidates of the column
RecordColumn(self, col, cands, result) ==
    LoopBody(self, col, cands, Outcome(self, cands),
             [result EXCEPT !.scores = Put(@, col, ScoreDict(cands))])

\* one iteration of the loop of map_columns
MapOneColumn(self, table, col, result) ==
    RecordColumn(self, col, _scores_for_column(self, col, SeriesOf(table, col)),
                 result)

RECURSIVE MapFrom(_, _, _, _)
MapFrom(self, table, i, result) ==
    IF i > Len(table.columns) THEN result
    ELSE MapFrom(self, table, i + 1,
                 MapOneColumn(self, table, table.columns[i], result))

\* SemanticFieldMapper.map_columns(df_or_columns)
map_columns(self, table) == MapFrom(self, table, 1, EmptyResult)


\* ------------------------------------------------------------------------
\* Inputs of the mapper: names, columns, tables, configurations
\* ------------------------------------------------------------------------

\* the reference fields configurations are drawn from, in list order
RefPool == <<n_EMAIL, n_email, n_email, n_phone, n_user_sp_id, n_user_id>>

\* the longest reference-field list short of the whole pool
MaxRefs == 2

\* the most columns of a table
MaxCols == 2

\* the items of pool at the indices idx, in pool order
RECURSIVE Pick(_, _, _)
Pick(pool, idx, i) ==
    IF i > Len(pool) THEN << >>
    ELSE (IF i \in idx THEN <<pool[i]>> ELSE << >>) \o Pick(pool, idx, i + 1)

SubLists(pool, maxLen) ==
    {Pick(pool, idx, 1) : idx \in {x \in SUBSET (1..Len(pool)) : Cardinality(x) <= maxLen}}

\* the short lists, and the whole pool
RefLists == SubLists(RefPool, MaxRefs) \cup {RefPool}

\* the columns tables are drawn from: a name and the series a frame holds
ColPool ==
    << [name |-> n_Email,
        series |-> [dtype |-> "Utf8", values |-> <<"a@example.com">>]],
       [name |-> n_phone_number,
        series |-> [dtype |-> "Utf8", values |-> <<"123", "456">>]],
       [name |-> n_user_id,
        series |-> [dtype |-> "Int64", values |-> <<1, 2>>]],
       [name |-> n_id,
        series |-> [dtype |-> "Utf8", values |-> <<"Alice", Null>>]],
       [name |-> n_contact,
        series |-> [dtype |-> "Utf8", values |-> <<"a@example.com", "b@example.com", "">>]] >>

\* a frame (kind "df") or a bare list of column names (kind "columns")
MakeTable(kind, cols) ==
    [ kind    |-> kind,
      columns |-> [i \in 1..Len(cols) |-> cols[i].name],
      series  |-> [nm \in {cols[i].name : i \in 1..Len(cols)} |->
                     (CHOOSE c \in Range(cols) : c.name = nm).series] ]

Tables == {MakeTable(kind, cols) :
              kind \in {"df", "columns"}, cols \in SubLists(ColPool, MaxCols)}

\* the contents synonyms.json may have when the module is loaded
DefaultSynonymsChoices ==
    { EmptyDict,
      (n_email :> <<n_mail, n_e_mail>>) }

\* the synonyms a caller may pass (None and {} are the empty dict)
CallerSynonymsChoices ==
    { EmptyDict,
      (n_email :> <<n_contact>>) @@ (n_phone :> <<n_phone_number>>) }

Thresholds == {Pct(0), Pct(72), Pct(99)}

Epsilons == {Pct(3), Pct(100)}

\* the arguments of SemanticFieldMapper(...)
MapperArgs ==
    [ reference_fields : RefLists,
      synonyms  : CallerSynonymsChoices,
      threshold : Thresholds,
      epsilon   : Epsilons,
      force     : BOOLEAN ]

\* ------------------------------------------------------------------------
\* Frames (polars.DataFrame) as the anomaly detectors see them
\* ------------------------------------------------------------------------

\* a cell: null, NaN, a number, a text or a boolean
PlNull == [null |-> TRUE]

NaN == [nan |-> TRUE]

Num(v) == [num |-> v]

Str(s) == [str |-> s]

Bool(b) == [bool |-> b]

IsNull(cell) == "null" \in DOMAIN cell

IsNum(cell) == "num" \in DOMAIN cell

IsEmptyStr(cell) == "str" \in DOMAIN cell /\ cell.str = ""

\* a frame: the columns in order, their dtypes, and the rows
MakeFrame(columns, dtypes, rows) ==
    [columns |-> columns, dtypes |-> dtypes, rows |-> rows]

\* df.clear() and df.head(0): the same columns, no rows
Clear(df) == [df EXCEPT !.rows = << >>]

\* df.filter(mask): the rows the mask selects, in order
Filter(df, mask) ==
    [df EXCEPT !.rows = Pick(df.rows, {i \in 1..Len(df.rows) : mask[i]}, 1)]

\* df.with_columns(values.alias(name)): a column of that name is replaced in
\* place, a new one is appended
with_columns(df, name, dtype, values) ==
    [ columns |-> IF name \in Range(df.columns) THEN df.columns
                  ELSE Append(df.columns, name),
      dtypes  |-> Put(df.dtypes, name, dtype),
      rows    |-> [i \in 1..Len(df.rows) |-> Put(df.rows[i], name, values[i])] ]

\* df.drop(name)
drop(df, name) ==
    LET Kept(c) == c # name
        keep == Range(df.columns) \ {name}
    IN  [ columns |-> SelectSeq(df.columns, Kept),
          dtypes  |-> [c \in keep |-> df.dtypes[c]],
          rows    |-> [i \in 1..Len(df.rows) |-> [c \in keep |-> df.rows[i][c]]] ]

\* df[column].to_numpy(): a null becomes NaN
to_numpy(df, column) ==
    [i \in 1..Len(df.rows) |->
        IF IsNull(df.rows[i][column]) THEN NaN ELSE df.rows[i][column]]

RECURSIVE SumSeq(_)
SumSeq(s) == IF s = << >> THEN 0 ELSE Head(s) + SumSeq(Tail(s))

RECURSIVE InsertAsc(_, _)
InsertAsc(sorted, v) ==
    IF sorted = << >> THEN <<v>>
    ELSE IF Head(sorted) <= v
         THEN <<Head(sorted)>> \o InsertAsc(Tail(sorted), v)
         ELSE <<v>> \o sorted

RECURSIVE SortAsc(_)
SortAsc(s) == IF s = << >> THEN << >> ELSE InsertAsc(SortAsc(Tail(s)), Head(s))

\* ------------------------------------------------------------------------
\* anomaly_detection/rules.py
\* ------------------------------------------------------------------------

\* the numbers of an array, its NaN entries left out
NonNaN(values) ==
    LET nums == SelectSeq(values, IsNum)
    IN  [i \in 1..Len(nums) |-> nums[i].num]

\* mutant: the missing entries count as values
CountAll(values) == Len(values)

\* the number of entries np.nanmean and np.nanstd average over
NanCount(values) == Len(NonNaN(values))

\* np.nanmean(values), times the count
NanSum(values) == SumSeq(NonNaN(values))

\* n * (v - mean)
ScaledDeviation(values, v) == NanCount(values) * v - NanSum(values)

\* np.nanstd(values) squared, times n^3: the sum of the squared deviations
\* from the mean, over the entries that are not NaN
ScaledVariance(values) ==
    LET nums == NonNaN(values)
    IN  SumSeq([i \in 1..Len(nums) |->
                  ScaledDeviation(values, nums[i]) * ScaledDeviation(values, nums[i])])

\* np.abs((v - mean) / std) > threshold, the threshold counted in halves;
\* a comparison with NaN is False
ZExceeds(values, cell, threshold) ==
    /\ IsNum(cell)
    /\ \/ threshold < 0
       \/ 4 * NanCount(values) * ScaledDeviation(values, cell.num)
                               * ScaledDeviation(values, cell.num)
            > threshold * threshold * ScaledVariance(values)

z_score_anomalies(df, column, threshold) ==
    LET values == to_numpy(df, column)
    IN  IF NanCount(values) = 0 \/ ScaledVariance(values) = 0
        THEN Clear(df)
        ELSE Filter(df, [i \in 1..Len(values) |->
                            ZExceeds(values, values[i], threshold)])

\* mutant: the percentile is the nearest value below, not interpolated
PercentileLower(sorted, quarters) ==
    4 * sorted[((quarters * (Len(sorted) - 1)) \div 4) + 1]

\* np.nanpercentile(values, 25 * quarters) times 4, by linear interpolation
\* between the two nearest ranks
Percentile(sorted, quarters) ==
    LET pos == quarters * (Len(sorted) - 1)
        k == pos \div 4
        r == pos % 4
    IN  IF r = 0 THEN 4 * sorted[k + 1]
        ELSE (4 - r) * sorted[k + 1] + r * sorted[k + 2]

iqr_anomalies(df, column) ==
    LET values == to_numpy(df, column)
        sorted == SortAsc(NonNaN(values))
    IN  IF Len(values) = 0 \/ Len(sorted) = 0
        THEN Clear(df)
        ELSE LET q1 == Percentile(sorted, 1)
                 q3 == Percentile(sorted, 3)
                 iqr == q3 - q1
                 lower == 2 * q1 - 3 * iqr    \* 8 * (q1 - 1.5 * iqr)
                 upper == 2 * q3 + 3 * iqr    \* 8 * (q3 + 1.5 * iqr)
             IN  Filter(df, [i \in 1..Len(values) |->
                    /\ IsNum(values[i])
                    /\ \/ 8 * values[i].num < lower
                       \/ 8 * values[i].num > upper])

\* ------------------------------------------------------------------------
\* anomaly_detection/missing_values.py
\* ------------------------------------------------------------------------

\* the missing expression of one column: null, or "" in a text column
IsMissing(df, col, cell) ==
    IF df.dtypes[col] = "Utf8" THEN IsNull(cell) \/ IsEmptyStr(cell)
    ELSE IsNull(cell)

\* sum(missing_expressions) on one row
MissingCount(df, row) ==
    Cardinality({k \in 1..Len(df.columns) :
                    IsMissing(df, df.columns[k], row[df.columns[k]])})

detect_missing_value_anomalies(df, threshold) ==
    IF Len(df.rows) = 0 THEN Clear(df)
    ELSE LET counts == [i \in 1..Len(df.rows) |-> Num(MissingCount(df, df.rows[i]))]
             df_with_counts == with_columns(df, "_missing_count", "Int32", counts)
             anomalies ==
                 Filter(df_with_counts,
                        [i \in 1..Len(df_with_counts.rows) |->
                            df_with_counts.rows[i]["_missing_count"].num
                                >= threshold])
         IN  drop(anomalies, "_missing_count")

\* ------------------------------------------------------------------------
\* anomaly_detection/isolation_forrest.py
\* ------------------------------------------------------------------------

\* complete_mask: every feature column is not null
CompleteMask(df, columns) ==
    [i \in 1..Len(df.rows) |->
        \A k \in 1..Len(columns) : ~IsNull(df.rows[i][columns[k]])]

\* X_complete: the feature columns of the complete rows
XComplete(df, columns) ==
    LET complete == Filter(df, CompleteMask(df, columns)).rows
    IN  [i \in 1..Len(complete) |->
            [k \in 1..Len(columns) |-> complete[i][columns[k]]]]

\* the model rejects a matrix holding NaN: fit_predict raises ValueError
ModelRejects(X) == \E i \in 1..Len(X) : \E k \in 1..Len(X[i]) : X[i][k] = NaN

\* mutant: the i-th label goes to the i-th row of the table
ProjectByPosition(mask, preds) ==
    [i \in DOMAIN mask |-> i <= Len(preds) /\ preds[i] = -1]

\* is_anomaly_full[complete_mask] = (preds_complete == -1)
Project(mask, preds) ==
    [i \in DOMAIN mask |->
        /\ mask[i]
        /\ preds[Cardinality({j \in 1..i : mask[j]})] = -1]

\* the frame returned once the model has labelled the complete rows
FlaggedRows(df, columns, preds) ==
    LET is_anomaly_full == Project(CompleteMask(df, columns), preds)
        df_flagged == with_columns(df, "is_anomaly", "Boolean",
                         [i \in 1..Len(df.rows) |-> Bool(is_anomaly_full[i])])
    IN  Filter(df_flagged, is_anomaly_full)

\* ------------------------------------------------------------------------
\* anomaly_detection/categorical.py
\* ------------------------------------------------------------------------

\* the dtypes a categorical column may have: text and signed integers
CategoricalDtypes == {"Utf8", "Int8", "Int16", "Int32", "Int64"}

\* df[col]: the cells of a column, in row order
Column(df, col) == [i \in 1..Len(df.rows) |-> df.rows[i][col]]

\* df[col].n_unique(): the distinct cells, null being one of them
n_unique(df, col) == Cardinality(Range(Column(df, col)))

\* n_unique <= min(100, max(2, total_rows * 0.1)), both sides times 10
WithinMaxUnique(unique, total_rows) ==
    10 * unique <= Min2(1000, Max2(20, total_rows))

\* cat_cols
cat_cols(df) ==
    LET Categorical(col) ==
            /\ df.dtypes[col] \in CategoricalDtypes
            /\ WithinMaxUnique(n_unique(df, col), Len(df.rows))
    IN  SelectSeq(df.columns, Categorical)

\* df[col].value_counts(): each distinct cell, null included, and its count
value_counts(df, col) ==
    [v \in Range(Column(df, col)) |->
        Cardinality({i \in 1..Len(df.rows) : df.rows[i][col] = v})]

\* counts.filter((pl.col("count") / total_rows) < threshold)[col], the
\* threshold in hundredths
rare_values(counts, total_rows, threshold) ==
    {v \in DOMAIN counts : counts[v] * 100 < threshold * total_rows}

\* pl.col(col).is_in(rare_values) under filter: whether a null cell matches a
\* null among the values depends on the polars release (nulls_equal)
is_in(cell, values, nulls_equal) ==
    /\ cell \in values
    /\ IsNull(cell) => nulls_equal

\* the try block raises, and the column is skipped: value_counts adds a
\* column named count next to one of that name, with_row_count adds a column
\* named row_nr to a frame that has one
ColumnRaises(df, col, rare) ==
    \/ col = "count"
    \/ rare # {} /\ "row_nr" \in Range(df.columns)

\* the row numbers, from 0, one column adds to anomalous_indices
RareRows(df, col, rare, nulls_equal) ==
    IF ColumnRaises(df, col, rare) THEN {}
    ELSE {i - 1 : i \in {j \in 1..Len(df.rows) :
                            is_in(df.rows[j][col], rare, nulls_equal)}}

\* anomalous_indices after the loop over cat_cols
anomalous_indices(df, cols, threshold, nulls_equal) ==
    UNION {RareRows(df, cols[k],
                    rare_values(value_counts(df, cols[k]), Len(df.rows), threshold),
                    nulls_equal) : k \in 1..Len(cols)}

\* df.with_row_count().filter(pl.col("row_nr").is_in(indices)).drop("row_nr")
RowsNumbered(df, indices) ==
    Filter(df, [i \in 1..Len(df.rows) |-> (i - 1) \in indices])

\* with no index collected the filter keeps no row, as df.head(0) does
detect_categorical_anomalies(df, threshold, nulls_equal) ==
    IF Len(df.rows) = 0 THEN Clear(df)
    ELSE RowsNumbered(df, anomalous_indices(df, cat_cols(df), threshold, nulls_equal))

\* ------------------------------------------------------------------------
\* schema_recognition/inference/type_inference.py
\* ------------------------------------------------------------------------

\* the texts of the columns to refine; what polars and Python do with a text
\* is tabulated per literal below
TypeTexts ==
    {"", "true", "false", "TRUE", "0", "1", "t", "f", "y", "12", "1.5",
     "1990-05-15", "15-05-1990", "2023-01-15 10:30:00", "abc"}

\* str(v).lower() and str.to_lowercase()
LowerText(t) == IF t = "TRUE" THEN "true" ELSE t

\* the set the unique values are tested against
BooleanGate == {"true", "false", "0", "1", "yes", "no"}

\* bool_map
bool_map ==
    "true" :> TRUE @@ "false" :> FALSE @@ "1" :> TRUE @@ "0" :> FALSE
    @@ "yes" :> TRUE @@ "no" :> FALSE @@ "t" :> TRUE @@ "f" :> FALSE
    @@ "y" :> TRUE @@ "n" :> FALSE

\* the texts cast(pl.Int64, strict=False) parses, and their values
IntTexts == "0" :> 0 @@ "1" :> 1 @@ "12" :> 12

\* the texts cast(pl.Float64, strict=False) parses, and their values in tenths
FloatTexts == "0" :> 0 @@ "1" :> 10 @@ "12" :> 120 @@ "1.5" :> 15

\* the date and datetime texts: the pattern family format inference finds
\* for them, and their value as year, month, day, hour, minute, second
TemporalTexts ==
    "1990-05-15" :> [family |-> "Y_M_D", value |-> <<1990, 5, 15, 0, 0, 0>>]
    @@ "15-05-1990" :> [family |-> "D_M_Y", value |-> <<1990, 5, 15, 0, 0, 0>>]
    @@ "2023-01-15 10:30:00"
           :> [family |-> "Y_M_D", value |-> <<2023, 1, 15, 10, 30, 0>>]

\* a date pattern does not parse a text that carries a time
HasTime(t) == t = "2023-01-15 10:30:00"

\* the pattern family one text is parsed with under str.to_date ("Date") or
\* str.to_datetime ("Datetime"), none when no pattern fits
PatternOf(dtype, cell) ==
    IF IsNull(cell) \/ cell.str \notin DOMAIN TemporalTexts THEN "none"
    ELSE IF dtype = "Date" /\ HasTime(cell.str) THEN "none"
    ELSE TemporalTexts[cell.str].family

\* format inference: the family of the first value that has one
InferPattern(dtype, cells) ==
    IF \A i \in 1..Len(cells) : PatternOf(dtype, cells[i]) = "none" THEN "none"
    ELSE PatternOf(dtype,
             cells[CHOOSE i \in 1..Len(cells) :
                      /\ PatternOf(dtype, cells[i]) # "none"
                      /\ \A j \in 1..(i - 1) : PatternOf(dtype, cells[j]) = "none"])

\* one cell under the expression of a target dtype; the non-strict casts
\* turn what they cannot parse into null
CastCell(dtype, cell, family) ==
    IF IsNull(cell) THEN PlNull
    ELSE CASE dtype = "Boolean" ->
                IF LowerText(cell.str) \in DOMAIN bool_map
                THEN Bool(bool_map[LowerText(cell.str)]) ELSE PlNull
           [] dtype = "Int64" ->
                IF cell.str \in DOMAIN IntTexts
                THEN Num(IntTexts[cell.str]) ELSE PlNull
           [] dtype = "Float64" ->
                IF cell.str \in DOMAIN FloatTexts
                THEN [float |-> FloatTexts[cell.str]] ELSE PlNull
           [] dtype = "Date" ->
                IF PatternOf(dtype, cell) = family
                THEN [date |-> SubSeq(TemporalTexts[cell.str].value, 1, 3)]
                ELSE PlNull
           [] dtype = "Datetime" ->
                IF PatternOf(dtype, cell) = family
                THEN [datetime |-> TemporalTexts[cell.str].value]
                ELSE PlNull
           [] OTHER -> cell

\* the expression of a target dtype evaluated on a column of texts
Cast(dtype, cells) ==
    [i \in 1..Len(cells) |->
        CastCell(dtype, cells[i], InferPattern(dtype, cells))]

\* str.to_date / str.to_datetime raise when no format can be inferred
CastRaises(dtype, cells) ==
    dtype \in {"Date", "Datetime"} /\ InferPattern(dtype, cells) = "none"

\* casted.null_count().item()
null_count(cells) == Cardinality({i \in 1..Len(cells) : IsNull(cells[i])})

\* the non-null, non-empty values of the column
IsValidValue(cell) == ~IsNull(cell) /\ cell # Str("")

valid_values(df, col) == SelectSeq(Column(df, col), IsValidValue)

\* n_unique <= 2 and lower_vals.issubset({...})
BooleanLike(valid) ==
    /\ Cardinality(Range(valid)) <= 2
    /\ {LowerText(valid[i].str) : i \in 1..Len(valid)} \subseteq BooleanGate

\* mutant: a cast is taken as soon as it parses one of the valid values
CastParsesSome(dtype, valid) ==
    /\ ~CastRaises(dtype, valid)
    /\ null_count(Cast(dtype, valid)) < Len(valid)

\* one try block: the cast of the valid values raises nothing and leaves no
\* null
CastSucceeds(dtype, valid) ==
    /\ ~CastRaises(dtype, valid)
    /\ null_count(Cast(dtype, valid)) = 0

\* Try Integer, Try Float, Try Date, Try Datetime, else the column as it is
FirstCast(valid) ==
    IF CastSucceeds("Int64", valid) THEN "Int64"
    ELSE IF CastSucceeds("Float64", valid) THEN "Float64"
    ELSE IF CastSucceeds("Date", valid) THEN "Date"
    ELSE IF CastSucceeds("Datetime", valid) THEN "Datetime"
    ELSE "Utf8"

\* refine_col_type: the dtype of the expression returned for a text column
TargetOf(valid) ==
    IF Len(valid) = 0 THEN "Utf8"
    ELSE IF BooleanLike(valid) /\ CastSucceeds("Boolean", valid) THEN "Boolean"
    ELSE FirstCast(valid)

refine_col_type(df, col_name) == TargetOf(valid_values(df, col_name))

\* the expression refine_types collects for a column: the refined one for a
\* text column, pl.col(name) otherwise
NewDtype(df, name) ==
    IF df.dtypes[name] = "Utf8" THEN refine_col_type(df, name)
    ELSE df.dtypes[name]

\* df.with_columns(new_exprs): every expression evaluated on the whole column
refine_types(df) ==
    [ columns |-> df.columns,
      dtypes  |-> [c \in Range(df.columns) |-> NewDtype(df, c)],
      rows    |-> [i \in 1..Len(df.rows) |->
                      [c \in Range(df.columns) |->
                          IF NewDtype(df, c) = df.dtypes[c] THEN df.rows[i][c]
                          ELSE Cast(NewDtype(df, c), Column(df, c))[i]]] ]

\* ------------------------------------------------------------------------
\* assistant/runner.py: the anomaly pass
\* ------------------------------------------------------------------------

\* the exception a detector invocation raises at a call site, "none" when
\* it returns; a call site is <<method, column>> or <<method>>
FaultAt(faults, site) == IF site \in DOMAIN faults THEN faults[site] ELSE "none"

\* except (pl.ComputeError, ValueError)
CaughtPerColumn == {"ComputeError", "ValueError"}

\* except (pl.ComputeError, ValueError, ImportError)
CaughtForest == {"ComputeError", "ValueError", "ImportError"}

\* sorted(list(set(...)))
SortedList(S) ==
    [k \in 1..Cardinality(S) |->
        CHOOSE x \in S : Cardinality({y \in S : y < x}) = k - 1]

\* adf["row_idx"].to_list()
RowIdxList(adf) == [i \in 1..Len(adf.rows) |-> adf.rows[i]["row_idx"].num]

\* the dicts of _detect_all_anomalies, and the exception that left it
NoAnomalies ==
    [ raised |-> "none",
      anomalies_counts |-> [k \in {} |-> 0],
      anomalies_saved  |-> [k \in {} |-> "None"],
      anomalies_rows   |-> [k \in {} |-> << >>] ]

\* total += adf.height and, if adf is not empty, the rows of the method
\* extended by adf's, as a sorted list without duplicates
Accumulate(acc, method, adf) ==
    IF adf.rows = << >> THEN acc
    ELSE [acc EXCEPT !.anomalies_rows =
             Put(@, method,
                 SortedList(Range(Get(acc.anomalies_rows, method))
                            \cup Range(RowIdxList(adf))))]

\* detect_anomalies(df_anom, method=..., columns=[c], ...)
PerColumnDetector(method, df_anom, c, anomaly_cfg) ==
    IF method = "zscore" THEN z_score_anomalies(df_anom, c, anomaly_cfg.z_threshold)
    ELSE iqr_anomalies(df_anom, c)

\* for c in numeric_cols: try ... except (pl.ComputeError, ValueError):
\* continue; then the count and the saved entry of the method
RECURSIVE PerColumnLoop(_, _, _, _, _, _, _, _)
PerColumnLoop(method, df_anom, numeric_cols, anomaly_cfg, faults, k, total, acc) ==
    IF k > Len(numeric_cols)
    THEN [acc EXCEPT !.anomalies_counts = Put(@, method, total),
                     !.anomalies_saved = Put(@, method, "None")]
    ELSE IF FaultAt(faults, <<method, numeric_cols[k]>>) \in CaughtPerColumn
    THEN PerColumnLoop(method, df_anom, numeric_cols, anomaly_cfg, faults,
                       k + 1, total, acc)
    ELSE IF FaultAt(faults, <<method, numeric_cols[k]>>) # "none"
    THEN [acc EXCEPT !.raised = FaultAt(faults, <<method, numeric_cols[k]>>)]
    ELSE PerColumnLoop(method, df_anom, numeric_cols, anomaly_cfg, faults, k + 1,
             total + Len(PerColumnDetector(method, df_anom, numeric_cols[k],
                                           anomaly_cfg).rows),
             Accumulate(acc, method,
                        PerColumnDetector(method, df_anom, numeric_cols[k],
                                          anomaly_cfg)))

\* one per-column method, if the configuration uses it
PerColumnPass(use, method, df_anom, numeric_cols, anomaly_cfg, faults, acc) ==
    IF ~use \/ acc.raised # "none" THEN acc
    ELSE PerColumnLoop(method, df_anom, numeric_cols, anomaly_cfg, faults, 1, 0, acc)

\* the exception the isolation-forest delegate raises: an injected one, or
\* the model's ValueError on a matrix holding NaN
ForestFault(df_anom, numeric_cols, faults) ==
    IF FaultAt(faults, <<"isolation_forest">>) # "none"
    THEN FaultAt(faults, <<"isolation_forest">>)
    ELSE IF ModelRejects(XComplete(df_anom, numeric_cols)) THEN "ValueError"
    ELSE "none"

\* isolation_forest_anomalies on the numeric columns, preds being the labels
\* the fitted model gives the complete rows
ForestRows(df_anom, numeric_cols, preds) ==
    IF Len(XComplete(df_anom, numeric_cols)) = 0 THEN Clear(df_anom)
    ELSE FlaggedRows(df_anom, numeric_cols, preds)

\* the count, rows and saved entry of the isolation forest
ForestEntries(acc, adf) ==
    [acc EXCEPT
        !.anomalies_counts = Put(@, "isolation_forest", Len(adf.rows)),
        !.anomalies_rows = IF adf.rows = << >> THEN @
                           ELSE Put(@, "isolation_forest", RowIdxList(adf)),
        !.anomalies_saved = Put(@, "isolation_forest", "None")]

\* Multi-column Isolation Forest
ForestPass(df_anom, numeric_cols, anomaly_cfg, faults, preds, acc) ==
    IF ~anomaly_cfg.use_isolation_forest \/ acc.raised # "none" THEN acc
    ELSE IF ForestFault(df_anom, numeric_cols, faults) \in CaughtForest
    THEN [acc EXCEPT !.anomalies_counts = Put(@, "isolation_forest", 0),
                     !.anomalies_saved = Put(@, "isolation_forest", "None")]
    ELSE IF ForestFault(df_anom, numeric_cols, faults) # "none"
    THEN [acc EXCEPT !.raised = ForestFault(df_anom, numeric_cols, faults)]
    ELSE ForestEntries(acc, ForestRows(df_anom, numeric_cols, preds))

\* the entries of a detector that reports only when it found rows
\* (categorical, missing_values); except Exception catches every fault
WholeFrameEntries(acc, method, fault, adf) ==
    IF acc.raised # "none" \/ fault # "none" \/ adf.rows = << >> THEN acc
    ELSE [acc EXCEPT
            !.anomalies_counts = Put(@, method, Len(adf.rows)),
            !.anomalies_rows = Put(@, method, RowIdxList(adf)),
            !.anomalies_saved = Put(@, method, "None")]

\* Missing Value Anomalies
MissingPass(df_anom, anomaly_cfg, faults, acc) ==
    IF ~anomaly_cfg.use_missing_values THEN acc
    ELSE WholeFrameEntries(acc, "missing_values", FaultAt(faults, <<"missing_values">>),
             detect_missing_value_anomalies(df_anom, anomaly_cfg.missing_threshold))

\* detect_categorical_anomalies(df_anom), with its default threshold 0.01
CategoricalPass(df_anom, faults, nulls_equal, acc) ==
    WholeFrameEntries(acc, "categorical", FaultAt(faults, <<"categorical">>),
        detect_categorical_anomalies(df_anom, 1, nulls_equal))

\* _detect_all_anomalies with save_dir None: every detector sits inside
\* `if numeric_cols:`
_detect_all_anomalies(df_anom, anomaly_cfg, numeric_cols, faults, preds, nulls_equal) ==
    IF numeric_cols = << >> THEN NoAnomalies
    ELSE MissingPass(df_anom, anomaly_cfg, faults,
           CategoricalPass(df_anom, faults, nulls_equal,
             ForestPass(df_anom, numeric_cols, anomaly_cfg, faults, preds,
               PerColumnPass(anomaly_cfg.use_iqr, "iqr", df_anom, numeric_cols,
                             anomaly_cfg, faults,
                 PerColumnPass(anomaly_cfg.use_zscore, "zscore", df_anom,
                               numeric_cols, anomaly_cfg, faults, NoAnomalies)))))

\* ------------------------------------------------------------------------
\* assistant/datasource.py
\* ------------------------------------------------------------------------

\* what a read returns: a frame, or the exception it raises and its message
ReadOk(frame) == [raised |-> "none", df |-> frame]

ReadRaises(exception, message) == [raised |-> exception, message |-> message]

Dataset(name, path, frame) == [name |-> name, path |-> path, df |-> frame]

\* pl.DataFrame({"_error": [str(e)], "_path": [str(p)]})
LocalWarnFrame(message, path) ==
    MakeFrame(<<"_error", "_path">>, [c \in {"_error", "_path"} |-> "Utf8"],
              << [_error |-> Str(message), _path |-> Str(path)] >>)

\* pl.DataFrame({"_error": [text]})
WarnFrame(text) ==
    MakeFrame(<<"_error">>, [c \in {"_error"} |-> "Utf8"], << [_error |-> Str(text)] >>)

\* exts = {".csv", ".parquet"}
exts == {".csv", ".parquet"}

\* f"column_{i}" for the i-th column, from 0
GenericNames == <<"column_0", "column_1", "column_2">>

\* df.rename(rename_map): the k-th column is named column_{k-1}
Renamed(frame) ==
    MakeFrame(SubSeq(GenericNames, 1, Len(frame.columns)),
              [c \in Range(SubSeq(GenericNames, 1, Len(frame.columns))) |->
                  frame.dtypes[frame.columns[CHOOSE k \in 1..Len(frame.columns) :
                                                 GenericNames[k] = c]]],
              [i \in 1..Len(frame.rows) |->
                  [c \in Range(SubSeq(GenericNames, 1, Len(frame.columns))) |->
                      frame.rows[i][frame.columns[CHOOSE k \in 1..Len(frame.columns) :
                                                      GenericNames[k] = c]]]])

\* _read_csv: the read with a header; on pl.ComputeError the read without a
\* header, its columns renamed
_read_csv(file) ==
    IF file.header.raised # "ComputeError" THEN file.header
    ELSE IF file.fallback.raised # "none" THEN file.fallback
    ELSE ReadOk(Renamed(file.fallback.df))

\* _read_parquet
_read_parquet(file) == file.header

\* the read of the try block of LocalFilesDataSource.iter_datasets
ReadFile(file) ==
    IF file.suffix = ".csv" THEN _read_csv(file) ELSE _read_parquet(file)

\* mutant: the dataset of a failed read keeps the file's name
YieldedForFileUnmarked(file, read) ==
    IF read.raised = "none" THEN Dataset(file.name, file.name, read.df)
    ELSE Dataset(file.name, file.name, LocalWarnFrame(read.message, file.name))

\* what the loop body yields for a file: the dataset, or on any Exception the
\* sentinel named name + " (read_error)"
YieldedForFile(file, read) ==
    IF read.raised = "none" THEN Dataset(file.name, file.name, read.df)
    ELSE Dataset(file.name \o " (read_error)", file.name,
                 LocalWarnFrame(read.message, file.name))

\* if not p.is_file(): continue; if p.suffix.lower() not in exts: continue
IsRead(file) == file.is_file /\ file.suffix \in exts

\* the next path after pos the loop reads, 0 when the walk is over
NextRead(files, pos) ==
    IF \E k \in (pos + 1)..Len(files) : IsRead(files[k])
    THEN CHOOSE k \in (pos + 1)..Len(files) :
            /\ IsRead(files[k])
            /\ \A j \in (pos + 1)..(k - 1) : ~IsRead(files[j])
    ELSE 0

\* the constructor's normalisation: an empty or blank string is None
Normalized(v) == IF v \in {None, "", " "} THEN None ELSE v

\* _fetch_table: the dataset schema.table, or the sentinel
\* schema.table + " (error)"
_fetch_table(schema, table_name, read) ==
    IF read.raised = "none"
    THEN Dataset(schema \o "." \o table_name, None, read.df)
    ELSE Dataset(schema \o "." \o table_name \o " (error)", None,
                 WarnFrame(read.message))

\* _iter_single_query: the dataset named self.name, or the sentinel
\* name + " (error)"
SingleQueryDataset(name, read) ==
    IF read.raised = "none" THEN Dataset(name, None, read.df)
    ELSE Dataset(name \o " (error)", None, WarnFrame(read.message))

\* the sentinel of a failed discovery
DiscoveryErrorDataset(schema, message) ==
    Dataset(schema \o " (discovery_error)", None,
            WarnFrame("Schema discovery failed: " \o message))

\* ------------------------------------------------------------------------
\* State
\* ------------------------------------------------------------------------

VARIABLES
    DEFAULT_SYNONYMS,  \* the module-level dict: reference field -> alias list
    mappers,           \* the SemanticFieldMapper instances constructed so far
    calls,             \* the map_columns calls made: the instance and its
                       \* attributes at the call, the table, the result
    agg,               \* the aggregate_score call made directly, if any
    df,                \* the frame the anomaly detectors are called on
    detection,         \* the detector call made: its arguments and outcome
    recognition,       \* the schema-recognition call made on df: its
                       \* arguments and result
    source,            \* a DataSource and the position of its iter_datasets
                       \* generator: what it has yielded so far
    assistant          \* the run_on_dataset or run_assistant call: its
                       \* arguments, its position and its outcome

mapperVars == <<DEFAULT_SYNONYMS, mappers, calls>>

scorerVars == <<agg>>

anomalyVars == <<df, detection>>

recognitionVars == <<recognition>>

assistantVars == <<source, assistant>>

vars == <<mapperVars, scorerVars, anomalyVars, recognitionVars, assistantVars>>

\* the variables the mapper leaves alone
notMapperVars == <<scorerVars, anomalyVars, recognitionVars, assistantVars>>

\* the variables the scorer leaves alone
notScorerVars == <<mapperVars, anomalyVars, recognitionVars, assistantVars>>

\* the variables the anomaly detectors leave alone
notAnomalyVars == <<mapperVars, scorerVars, recognitionVars, assistantVars>>

\* the variables a schema-recognition call leaves alone
notRecognitionVars == <<mapperVars, scorerVars, df, detection, assistantVars>>

\* the variables a data source and the assistant leave alone
notAssistantVars == <<mapperVars, scorerVars, detection, recognitionVars>>

\* self.synonyms: the dict copy shares the alias lists of DEFAULT_SYNONYMS,
\* so the keys the defaults had at construction read the module's lists
SynonymsOf(m) ==
    [k \in (DOMAIN DEFAULT_SYNONYMS) \cup (DOMAIN m.own) |->
        IF k \in DOMAIN DEFAULT_SYNONYMS THEN DEFAULT_SYNONYMS[k] ELSE m.own[k]]

Self(m) ==
    [ reference_fields |-> m.args.reference_fields,
      synonyms  |-> SynonymsOf(m),
      threshold |-> m.args.threshold,
      epsilon   |-> m.args.epsilon,
      force     |-> m.args.force ]

\* combined_synonyms[k].extend(vals) for the keys the defaults have
ExtendDefaults(defaults, synonyms) ==
    [k \in DOMAIN defaults |->
        IF k \in DOMAIN synonyms THEN defaults[k] \o synonyms[k] ELSE defaults[k]]

\* combined_synonyms[k] = list(vals) for the other keys
OwnSynonyms(defaults, synonyms) ==
    [k \in (DOMAIN synonyms) \ (DOMAIN defaults) |-> synonyms[k]]

\* SemanticFieldMapper.__init__
Construct(args) ==
    /\ mappers' = Append(mappers, [args |-> args,
                                   own |-> OwnSynonyms(DEFAULT_SYNONYMS, args.synonyms)])
    /\ DEFAULT_SYNONYMS' = ExtendDefaults(DEFAULT_SYNONYMS, args.synonyms)
    /\ UNCHANGED <<calls, notMapperVars>>

\* SemanticFieldMapper.map_columns(df_or_columns) on instance m
MapColumns(m, table) ==
    /\ calls' = Append(calls, [mapper |-> m,
                               self   |-> Self(mappers[m]),
                               table  |-> table,
                               result |-> map_columns(Self(mappers[m]), table)])
    /\ UNCHANGED <<DEFAULT_SYNONYMS, mappers, notMapperVars>>

\* the module-level map_columns(...): construct one mapper, then map
WrapperConstruct ==
    /\ mappers = << >>
    /\ \E args \in MapperArgs : Construct(args)

WrapperMap ==
    /\ Len(mappers) = 1
    /\ calls = << >>
    /\ \E table \in Tables :
          \* df is None and not columns: ValueError, no mapper is used
          /\ ~(table.kind = "columns" /\ table.columns = << >>)
          /\ MapColumns(1, table)

\* no frame: no column, no row
NoFrame == MakeFrame(<< >>, << >>, << >>)

\* no detector has run
NoModel == [invoked |-> FALSE]

NoDetection ==
    [fn |-> "none", columns |-> << >>, threshold |-> 0, raised |-> "",
     model |-> NoModel, result |-> NoFrame]

Detected(fn, columns, threshold, model, result) ==
    [fn |-> fn, columns |-> columns, threshold |-> threshold, raised |-> "",
     model |-> model, result |-> result]

Raised(fn, columns, threshold, model, error) ==
    [fn |-> fn, columns |-> columns, threshold |-> threshold, raised |-> error,
     model |-> model, result |-> NoFrame]

\* no direct aggregate_score call
NoAgg == [called |-> FALSE]

\* no data source is being read
NoSource == [kind |-> "none"]

\* no assistant call
NoAssistant == [fn |-> "none"]

\* no schema-recognition call
NoRecognition == [fn |-> "none"]

MapperInit ==
    /\ DEFAULT_SYNONYMS \in DefaultSynonymsChoices
    /\ mappers = << >>
    /\ calls = << >>

Init ==
    /\ MapperInit
    /\ agg = NoAgg
    /\ df = NoFrame
    /\ detection = NoDetection
    /\ recognition = NoRecognition
    /\ source = NoSource
    /\ assistant = NoAssistant

Next == WrapperConstruct \/ WrapperMap

Spec == Init /\ [][Next]_vars

\* ------------------------------------------------------------------------
\* aggregate_score called directly, on arbitrary signals and boosts
\* ------------------------------------------------------------------------

SignalValues == {Pct(-50), 0, Pct(60), Pct(150)}

PenaltyValues == {Pct(-200), Pct(-2), 0}

DtypeBoostValues == {Pct(-100), 0, Pct(2)}

PatternBoostValues == {0, Pct(50), Pct(200)}

\* full signal dicts, and dicts with keys missing
ComponentChoices ==
    [ exact : SignalValues, norm_exact : SignalValues, synonym : SignalValues,
      jaccard : SignalValues, seq : SignalValues, length_penalty : PenaltyValues ]
    \cup { [k \in {} |-> 0], [seq |-> Pct(60)], [length_penalty |-> Pct(-2)] }

AggregateCall ==
    /\ agg = NoAgg
    /\ mappers = << >>
    /\ \E components \in ComponentChoices, dtype_boost \in DtypeBoostValues,
          pattern_boost \in PatternBoostValues :
          agg' = [ called |-> TRUE,
                   components |-> components,
                   dtype_boost |-> dtype_boost,
                   pattern_boost |-> pattern_boost,
                   result |-> aggregate_score(components, dtype_boost, pattern_boost) ]
    /\ UNCHANGED notScorerVars

\* the scorer is reached directly or through the module-level map_columns
ScoreNext ==
    \/ AggregateCall
    \/ agg = NoAgg /\ WrapperConstruct
    \/ agg = NoAgg /\ WrapperMap

SpecScore == Init /\ [][ScoreNext]_vars

\* ------------------------------------------------------------------------
\* base_name_scores called directly, on pairs of names
\* ------------------------------------------------------------------------

\* short names, stopwords, names in capitals and in CamelCase
ScoreNames ==
    { n_id, n_no, n_x, n_ab, n_AB, n_ab_id, n_user_id, n_email, n_Email, n_EMAIL,
      n_phone, n_PHONE, n_telephone, n_TELEPHONE, n_text, n_ReviewText,
      n_label, n_Label, n_title, n_Title }

ScoreSynonyms == {EmptyDict, (n_email :> <<n_ab, n_mail>>)}

BaseNameScores ==
    /\ agg = NoAgg
    /\ mappers = << >>
    /\ \E src \in ScoreNames, ref \in ScoreNames, synonyms \in ScoreSynonyms :
          agg' = [ called |-> FALSE,
                   fn |-> "base_name_scores",
                   src |-> src,
                   ref |-> ref,
                   synonyms |-> synonyms,
                   result |-> base_name_scores(src, ref, synonyms) ]
    /\ UNCHANGED notScorerVars

NamesNext == BaseNameScores

SpecNames == Init /\ [][NamesNext]_vars

\* ------------------------------------------------------------------------
\* map_columns on lists of column names, as the tests of the mapper call it
\* ------------------------------------------------------------------------

\* the most reference fields and the most columns of a call on names
MaxNames == 3

TestRefPool == <<n_email, n_phone, n_telephone, n_label, n_title, n_text>>

TestColPool == <<n_Email, n_PHONE, n_TELEPHONE, n_Label, n_Title, n_ReviewText>>

\* a bare list of column names
ColumnList(names) ==
    [kind |-> "columns", columns |-> names, series |-> [nm \in {} |-> NoSeries]]

\* threshold 0.7 as in test_exact_case_insensitive_match, and the defaults
TestArgs ==
    [ reference_fields : SubLists(TestRefPool, MaxNames),
      synonyms  : {EmptyDict},
      threshold : {Pct(70), Pct(72)},
      epsilon   : {Pct(3)},
      force     : {FALSE} ]

TestTables == {ColumnList(names) : names \in SubLists(TestColPool, MaxNames) \ {<< >>}}

TestConstruct ==
    /\ mappers = << >>
    /\ \E args \in TestArgs : Construct(args)

TestMap ==
    /\ Len(mappers) = 1
    /\ calls = << >>
    /\ \E table \in TestTables : MapColumns(1, table)

TestsNext == TestConstruct \/ TestMap

SpecTests == Init /\ [][TestsNext]_vars

\* ------------------------------------------------------------------------
\* map_columns on columns named exactly as a reference field
\* ------------------------------------------------------------------------

ExactRefPool == <<n_email, n_contact, n_EMAIL, n_user_id, n_user_sp_id>>

\* columns whose names are reference fields, with their values
ExactColPool ==
    << ColPool[5],
       ColPool[3],
       [name |-> n_email,
        series |-> [dtype |-> "Utf8", values |-> <<"a@example.com">>]] >>

ExactArgs ==
    [ reference_fields : SubLists(ExactRefPool, MaxNames),
      synonyms  : CallerSynonymsChoices,
      threshold : {Pct(72), One},
      epsilon   : {Pct(3), Pct(5)},
      force     : BOOLEAN ]

ExactTables ==
    {MakeTable(kind, cols) :
        kind \in {"df", "columns"}, cols \in SubLists(ExactColPool, 2) \ {<< >>}}

ExactConstruct ==
    /\ mappers = << >>
    /\ \E args \in ExactArgs : Construct(args)

ExactMap ==
    /\ Len(mappers) = 1
    /\ calls = << >>
    /\ \E table \in ExactTables : MapColumns(1, table)

ExactNext == ExactConstruct \/ ExactMap

SpecExact == Init /\ [][ExactNext]_vars

\* ------------------------------------------------------------------------
\* Several mappers in one process, each called several times
\* ------------------------------------------------------------------------

\* the most mappers constructed
MaxMappers == 2

\* the most map_columns calls
MaxCalls == 2

RerunArgs ==
    [ reference_fields : {<<n_email, n_phone>>},
      synonyms  : CallerSynonymsChoices,
      threshold : {Pct(72)},
      epsilon   : {Pct(3)},
      force     : {FALSE} ]

RerunTables ==
    {MakeTable(kind, <<ColPool[k]>>) : kind \in {"df", "columns"}, k \in {2, 5}}

ConstructAny ==
    /\ Len(mappers) < MaxMappers
    /\ \E args \in RerunArgs : Construct(args)

CallAny ==
    /\ Len(calls) < MaxCalls
    /\ \E m \in 1..Len(mappers), table \in RerunTables : MapColumns(m, table)

RerunNext == ConstructAny \/ CallAny

SpecRerun == Init /\ [][RerunNext]_vars

\* ------------------------------------------------------------------------
\* The anomaly detectors called on a frame
\* ------------------------------------------------------------------------

\* the most rows of a generated one-column frame
MaxRows == 4

\* the most rows of a generated frame of several columns
MaxMixedRows == 2

SeqsUpTo(S, n) == UNION {[1..k -> S] : k \in 0..n}

\* df.with_row_count("row_idx"): the position, from 0, as the first column
with_row_count(columns, dtypes, rows) ==
    MakeFrame(<<"row_idx">> \o columns,
              Put(dtypes, "row_idx", "UInt32"),
              [i \in 1..Len(rows) |-> Put(rows[i], "row_idx", Num(i - 1))])

\* one numeric column x, with nulls and NaN
NumericFrames ==
    {with_row_count(<<"x">>, [c \in {"x"} |-> "Float64"], rows) :
        rows \in SeqsUpTo([x : {PlNull, NaN, Num(10), Num(20), Num(90)}], MaxRows)}

\* one numeric column of few values, one row longer
LongFrames ==
    {with_row_count(<<"x">>, [c \in {"x"} |-> "Float64"], rows) :
        rows \in [1..(MaxRows + 1) -> [x : {PlNull, Num(10), Num(90)}]]}

\* a float, an integer and a text column
MixedFrames ==
    {with_row_count(<<"x", "y", "s">>,
                    [x |-> "Float64", y |-> "Int64", s |-> "Utf8"], rows) :
        rows \in SeqsUpTo([x : {PlNull, NaN, Num(10)},
                           y : {PlNull, Num(20)},
                           s : {PlNull, Str(""), Str("t")}], MaxMixedRows)}

\* a frame that has a column named like the detector's temporary column
TemporaryNameFrames ==
    {with_row_count(<<"a", "_missing_count">>,
                    [c \in {"a", "_missing_count"} |-> "Int64"], rows) :
        rows \in SeqsUpTo([a : {PlNull, Num(1)}, _missing_count : {Num(5)}],
                          MaxMixedRows)}

\* the values 10.5, 12.0, 11.5, 100.0, 10.9, in tenths
ExampleFrame ==
    with_row_count(<<"x">>, [c \in {"x"} |-> "Float64"],
                   <<[x |-> Num(105)], [x |-> Num(120)], [x |-> Num(115)],
                     [x |-> Num(1000)], [x |-> Num(109)]>>)

\* the frame of test_detect_missing_value_anomalies_single_null
SingleNullFrame ==
    MakeFrame(<<"a", "b", "c">>, [c \in {"a", "b", "c"} |-> "Int64"],
              << [a |-> Num(1), b |-> Num(10), c |-> Num(100)],
                 [a |-> Num(2), b |-> Num(20), c |-> Num(200)],
                 [a |-> PlNull, b |-> Num(30), c |-> Num(300)],
                 [a |-> Num(4), b |-> PlNull,  c |-> Num(400)],
                 [a |-> Num(5), b |-> Num(50), c |-> Num(500)] >>)

\* one text column c, with nulls
TextFrames ==
    {with_row_count(<<"c">>, [c \in {"c"} |-> "Utf8"], rows) :
        rows \in SeqsUpTo([c : {PlNull, Str("a"), Str("b"), Str("c")}], MaxRows)}

\* frames with a column named like a column the categorical detector adds:
\* row_nr of with_row_count, count of value_counts
AddedNameFrames ==
    UNION {{MakeFrame(<<name, "c">>, [c \in {name, "c"} |-> "Utf8"], rows) :
               rows \in SeqsUpTo([{name, "c"} -> {Str("a"), Str("b")}],
                                 MaxMixedRows)} :
           name \in {"row_nr", "count"}}

\* thirty rows of one text column: a frequent value and d - 1 single ones,
\* where the cardinality cap is 3
ThirtyRowFrames ==
    {MakeFrame(<<"c">>, [c \in {"c"} |-> "Utf8"],
               [i \in 1..30 |->
                   [c |-> IF i <= 30 - (d - 1) THEN Str("a")
                          ELSE Str(<<"b", "c", "d">>[30 - i + 1])]]) :
        d \in {3, 4}}

Frames ==
    NumericFrames \cup LongFrames \cup MixedFrames \cup TemporaryNameFrames
    \cup TextFrames \cup AddedNameFrames \cup ThirtyRowFrames
    \cup {ExampleFrame, SingleNullFrame}

\* select_numeric_columns(df, exclude)
select_numeric_columns(frame, exclude) ==
    LET Numeric(c) == frame.dtypes[c] \in NumericDtypes /\ c \notin exclude
    IN  SelectSeq(frame.columns, Numeric)

\* thresholds of the z-score, in halves: -0.5, 0.5, 1.0, 1.5
ZThresholds == {-1, 1, 2, 3}

\* thresholds of the missing-value count
MissingThresholds == {0, 1, 2, 4}

\* the columns a single-column detector is called on: the numeric ones, and
\* one the frame does not have
ColumnChoices == Range(select_numeric_columns(df, {})) \cup {"absent"}

ZScore ==
    /\ detection = NoDetection
    /\ \E column \in ColumnChoices, threshold \in ZThresholds :
          detection' =
              IF column \notin Range(df.columns)
              THEN Raised("z_score", <<column>>, threshold, NoModel, "KeyError")
              ELSE Detected("z_score", <<column>>, threshold, NoModel,
                            z_score_anomalies(df, column, threshold))
    /\ UNCHANGED <<df, notAnomalyVars>>

Iqr ==
    /\ detection = NoDetection
    /\ \E column \in ColumnChoices :
          detection' =
              IF column \notin Range(df.columns)
              THEN Raised("iqr", <<column>>, 0, NoModel, "KeyError")
              ELSE Detected("iqr", <<column>>, 0, NoModel,
                            iqr_anomalies(df, column))
    /\ UNCHANGED <<df, notAnomalyVars>>

MissingValues ==
    /\ detection = NoDetection
    /\ \E threshold \in MissingThresholds :
          detection' = Detected("missing", << >>, threshold, NoModel,
                                detect_missing_value_anomalies(df, threshold))
    /\ UNCHANGED <<df, notAnomalyVars>>

\* the feature lists: no column, a column the frame lacks, and the lists of
\* numeric columns
FeatureChoices ==
    SubLists(select_numeric_columns(df, {"row_idx"}), 2) \cup {<<"absent">>}

\* model.fit_predict(X): one label, -1 or 1, for each row of X
ModelLabels(X) == [1..Len(X) -> {-1, 1}]

IsolationForest ==
    /\ detection = NoDetection
    /\ \E columns \in FeatureChoices :
          IF columns = << >>
          THEN detection' = Raised("isolation_forest", columns, 0, NoModel, "ValueError")
          ELSE IF \E k \in 1..Len(columns) : columns[k] \notin Range(df.columns)
          THEN detection' = Raised("isolation_forest", columns, 0, NoModel, "KeyError")
          ELSE LET X == XComplete(df, columns)
               IN  IF Len(X) = 0
                   THEN detection' = Detected("isolation_forest", columns, 0,
                                              NoModel, Clear(df))
                   ELSE IF ModelRejects(X)
                   THEN detection' =
                            Raised("isolation_forest", columns, 0,
                                   [invoked |-> TRUE, X |-> X], "ValueError")
                   ELSE \E preds \in ModelLabels(X) :
                            detection' =
                                Detected("isolation_forest", columns, 0,
                                         [invoked |-> TRUE, X |-> X, preds |-> preds],
                                         FlaggedRows(df, columns, preds))
    /\ UNCHANGED <<df, notAnomalyVars>>

\* thresholds of the value frequency, in hundredths: 0.01 is the default
CatThresholds == {0, 1, 5, 50, 60, 100}

\* the polars release decides whether a null cell is found among rare values
Categorical ==
    /\ detection = NoDetection
    /\ \E threshold \in CatThresholds, nulls_equal \in BOOLEAN :
          detection' =
              Detected("categorical", << >>, threshold,
                       [invoked |-> FALSE, nulls_equal |-> nulls_equal],
                       detect_categorical_anomalies(df, threshold, nulls_equal))
    /\ UNCHANGED <<df, notAnomalyVars>>

AnomalyInit ==
    /\ MapperInit
    /\ agg = NoAgg
    /\ df \in Frames
    /\ detection = NoDetection
    /\ recognition = NoRecognition
    /\ source = NoSource
    /\ assistant = NoAssistant

AnomalyNext ==
    ZScore \/ Iqr \/ MissingValues \/ IsolationForest \/ Categorical

SpecAnomaly == AnomalyInit /\ [][AnomalyNext]_vars

\* ------------------------------------------------------------------------
\* anomaly_detection/utils.py: detect_anomalies, the dispatcher
\* ------------------------------------------------------------------------

\* what a detect_anomalies call is recorded with: the method and the columns
\* the caller gave
Given(method, columns) == [invoked |-> FALSE, method |-> method, columns |-> columns]

\* isolation_forest_anomalies(df, columns, ...), preds being the labels the
\* fitted model gives the complete rows
isolation_forest_anomalies(frame, method, given, columns, preds) ==
    IF columns = << >>
    THEN Raised("detect_anomalies", columns, 0, Given(method, given), "ValueError")
    ELSE IF \E k \in 1..Len(columns) : columns[k] \notin Range(frame.columns)
    THEN Raised("detect_anomalies", columns, 0, Given(method, given), "KeyError")
    ELSE IF Len(XComplete(frame, columns)) = 0
    THEN Detected("detect_anomalies", columns, 0, Given(method, given), Clear(frame))
    ELSE IF ModelRejects(XComplete(frame, columns))
    THEN Raised("detect_anomalies", columns, 0, Given(method, given), "ValueError")
    ELSE Detected("detect_anomalies", columns, 0, Given(method, given),
                  FlaggedRows(frame, columns, preds))

\* if not columns: columns = select_numeric_columns(df)
ForestColumns(frame, columns) ==
    IF columns = << >> THEN select_numeric_columns(frame, {}) ELSE columns

\* ensure_columns_exist(df, columns)
ColumnsExist(frame, columns) ==
    \A k \in 1..Len(columns) : columns[k] \in Range(frame.columns)

\* z_score_anomalies / iqr_anomalies on the single column: KeyError if the
\* frame lacks it
SingleColumn(frame, method, columns, threshold) ==
    IF columns[1] \notin Range(frame.columns)
    THEN Raised("detect_anomalies", columns, threshold, Given(method, columns), "KeyError")
    ELSE Detected("detect_anomalies", columns, threshold, Given(method, columns),
                  IF method = "zscore"
                  THEN z_score_anomalies(frame, columns[1], threshold)
                  ELSE iqr_anomalies(frame, columns[1]))

\* detect_anomalies(df, method, columns, threshold)
detect_anomalies(frame, method, columns, threshold, preds) ==
    IF method \in {"zscore", "iqr"}
    THEN IF Len(columns) # 1
         THEN Raised("detect_anomalies", columns, threshold, Given(method, columns),
                     "ValueError")
         ELSE SingleColumn(frame, method, columns, threshold)
    ELSE IF method = "isolation_forest"
    THEN IF ~ColumnsExist(frame, ForestColumns(frame, columns))
         THEN Raised("detect_anomalies", ForestColumns(frame, columns), 0,
                     Given(method, columns), "KeyError")
         ELSE isolation_forest_anomalies(frame, method, columns,
                                         ForestColumns(frame, columns), preds)
    ELSE Raised("detect_anomalies", columns, threshold, Given(method, columns),
                "ValueError")

\* the three methods, and a name that is none of them
MethodChoices == {"zscore", "iqr", "isolation_forest", "lof"}

\* no column, one, two, one the frame lacks, one it has and one it lacks
DispatchColumns == {<< >>, <<"x">>, <<"x", "y">>, <<"absent">>, <<"x", "absent">>}

\* the labels the model may give when the forest is reached
DispatchLabels(frame, method, columns) ==
    IF method = "isolation_forest" /\ ColumnsExist(frame, ForestColumns(frame, columns))
    THEN ModelLabels(XComplete(frame, ForestColumns(frame, columns)))
    ELSE {<< >>}

DetectAnomalies ==
    /\ detection = NoDetection
    /\ \E method \in MethodChoices, columns \in DispatchColumns :
       \E preds \in DispatchLabels(df, method, columns) :
          detection' = detect_anomalies(df, method, columns, 6, preds)
    /\ UNCHANGED <<df, notAnomalyVars>>

\* two text columns: no numeric column, no row index
PlainTextFrames ==
    {MakeFrame(<<"s", "t">>, [s |-> "Utf8", t |-> "Utf8"], rows) :
        rows \in SeqsUpTo({[s |-> Str("abc"), t |-> Str("abc")]}, MaxMixedRows)}

DispatchInit ==
    /\ MapperInit
    /\ agg = NoAgg
    /\ df \in MixedFrames \cup PlainTextFrames
    /\ detection = NoDetection
    /\ recognition = NoRecognition
    /\ source = NoSource
    /\ assistant = NoAssistant

DispatchNext == DetectAnomalies

SpecDispatch == DispatchInit /\ [][DispatchNext]_vars

\* ------------------------------------------------------------------------
\* SemanticTypeDetector.detect called on a frame
\* ------------------------------------------------------------------------

\* the texts of the sampled column: empty, blank, and values of one or two
\* patterns
SampleTexts ==
    {"", "  ", "a@example.com", "5551234567", "555-123-4567", "123"}

\* a text column v with nulls, and an integer column n
DetectFrames ==
    {MakeFrame(<<"v", "n">>, [v |-> "Utf8", n |-> "Int64"], rows) :
        rows \in SeqsUpTo([v : {PlNull} \cup {Str(t) : t \in SampleTexts},
                           n : {Num(123)}], MaxRows)}

SampleSizes == {0, 1, 2, 3, DefaultSampleSize}

Detect ==
    /\ recognition = NoRecognition
    /\ \E sample_size \in SampleSizes :
          recognition' = [ fn |-> "detect",
                           sample_size |-> sample_size,
                           result |-> detect(df, sample_size) ]
    /\ UNCHANGED notRecognitionVars

DetectInit ==
    /\ MapperInit
    /\ agg = NoAgg
    /\ df \in DetectFrames
    /\ detection = NoDetection
    /\ recognition = NoRecognition
    /\ source = NoSource
    /\ assistant = NoAssistant

DetectNext == Detect

SpecDetect == DetectInit /\ [][DetectNext]_vars

\* ------------------------------------------------------------------------
\* refine_types called on a frame
\* ------------------------------------------------------------------------

\* the most rows of a frame to refine
MaxTextRows == 3

\* a text column s with nulls and empty texts, and an integer column n
RefineFrames ==
    {MakeFrame(<<"s", "n">>, [s |-> "Utf8", n |-> "Int64"], rows) :
        rows \in SeqsUpTo([s : {PlNull} \cup {Str(t) : t \in TypeTexts},
                           n : {Num(7)}], MaxTextRows)}

Refine ==
    /\ recognition = NoRecognition
    /\ recognition' = [fn |-> "refine_types", result |-> refine_types(df)]
    /\ UNCHANGED notRecognitionVars

RefineInit ==
    /\ MapperInit
    /\ agg = NoAgg
    /\ df \in RefineFrames
    /\ detection = NoDetection
    /\ recognition = NoRecognition
    /\ source = NoSource
    /\ assistant = NoAssistant

RefineNext == Refine

SpecRefine == RefineInit /\ [][RefineNext]_vars

\* ------------------------------------------------------------------------
\* assistant/runner.py: run_on_dataset
\* ------------------------------------------------------------------------

\* the report of a dataset: the fields of DatasetReport the model computes
DatasetReport(dataset, refined, mapping_cfg, anomalies) ==
    IF anomalies.raised # "none" THEN [raised |-> anomalies.raised]
    ELSE [ raised |-> "none",
           name |-> dataset.name,
           rows |-> Len(refined.rows),
           cols |-> Len(refined.columns),
           schema |-> refined.dtypes,
           semantic_types |-> detect(refined, DefaultSampleSize),
           reference_fields |-> mapping_cfg.reference_fields,
           anomalies |-> anomalies.anomalies_counts,
           anomaly_samples_saved |-> anomalies.anomalies_saved,
           anomaly_rows |-> anomalies.anomalies_rows ]

\* from df_anom on: the numeric columns without row_idx, the anomaly pass and
\* the report
RunAnomalies(dataset, refined, df_anom, mapping_cfg, anomaly_cfg, faults, preds, nulls_equal) ==
    DatasetReport(dataset, refined, mapping_cfg,
        _detect_all_anomalies(df_anom, anomaly_cfg,
                              select_numeric_columns(df_anom, {"row_idx"}),
                              faults, preds, nulls_equal))

\* df.with_row_count("row_idx") on the refined frame: a frame that has a
\* column of that name makes it raise
RunRefined(dataset, refined, mapping_cfg, anomaly_cfg, faults, preds, nulls_equal) ==
    IF "row_idx" \in Range(refined.columns) THEN [raised |-> "DuplicateError"]
    ELSE RunAnomalies(dataset, refined, with_row_count(refined.columns, refined.dtypes, refined.rows),
                      mapping_cfg, anomaly_cfg, faults, preds, nulls_equal)

\* run_on_dataset(dataset, mapping_cfg, anomaly_cfg) with save_dir None; the
\* language-model client is unreachable and its failure is caught
run_on_dataset(dataset, mapping_cfg, anomaly_cfg, faults, preds, nulls_equal) ==
    RunRefined(dataset, refine_types(dataset.df), mapping_cfg, anomaly_cfg,
               faults, preds, nulls_equal)

\* AnomalyConfig(): z_threshold 3.0 in halves, missing_threshold 1
DefaultAnomalyConfig ==
    [ z_threshold |-> 6, use_iqr |-> TRUE, use_zscore |-> TRUE,
      use_isolation_forest |-> TRUE, use_missing_values |-> TRUE,
      missing_threshold |-> 1 ]

\* ------------------------------------------------------------------------
\* Specification of run_on_dataset: one dataset, one run
\* ------------------------------------------------------------------------

\* the most rows of a dataset handed to run_on_dataset
MaxRunRows == 2

\* two numeric columns and a text column, without row_idx
RunFrames ==
    {MakeFrame(<<"x", "y", "s">>, [x |-> "Float64", y |-> "Int64", s |-> "Utf8"], rows) :
        rows \in SeqsUpTo({[x |-> Num(10), y |-> Num(1), s |-> Str("abc")],
                           [x |-> Num(90), y |-> Num(5), s |-> Str("abc")],
                           [x |-> PlNull,  y |-> Num(1), s |-> Str("abc")]},
                          MaxRunRows)}

\* a dataset that has a column named row_idx
RowIdxFrame ==
    MakeFrame(<<"row_idx", "x">>, [row_idx |-> "Int64", x |-> "Float64"],
              << [row_idx |-> Num(7), x |-> Num(10)] >>)

\* the default configuration, a low z threshold, and each detector switched
\* off in turn
AnomalyConfigs ==
    {[DefaultAnomalyConfig EXCEPT !.z_threshold = z] : z \in {1, 6}}
    \cup {[DefaultAnomalyConfig EXCEPT !.use_zscore = FALSE],
          [DefaultAnomalyConfig EXCEPT !.use_iqr = FALSE],
          [DefaultAnomalyConfig EXCEPT !.use_isolation_forest = FALSE],
          [DefaultAnomalyConfig EXCEPT !.use_missing_values = FALSE]}

\* the call sites of the detectors in the anomaly pass
DetectorSites ==
    {<<m, c>> : m \in {"zscore", "iqr"}, c \in {"x", "y"}}
    \cup {<<"isolation_forest">>, <<"categorical">>, <<"missing_values">>}

\* the exceptions a detector invocation may raise
DetectorExceptions == {"ComputeError", "ValueError", "ImportError", "KeyError"}

NoFaults == [site \in {} |-> "none"]

\* at most one detector invocation raises
FaultChoices ==
    {NoFaults} \cup {[site \in {at} |-> e] : at \in DetectorSites, e \in DetectorExceptions}

\* the labels the forest gives the complete rows of the refined frame
RunLabels(frame) ==
    ModelLabels(XComplete(frame, select_numeric_columns(frame, {"row_idx"})))

RunOnDataset ==
    /\ assistant = NoAssistant
    /\ \E anomaly_cfg \in AnomalyConfigs, faults \in FaultChoices,
          nulls_equal \in BOOLEAN :
          \E preds \in RunLabels(refine_types(df)) :
             assistant' =
                [ fn |-> "run_on_dataset",
                  anomaly_cfg |-> anomaly_cfg,
                  faults |-> faults,
                  preds |-> preds,
                  nulls_equal |-> nulls_equal,
                  outcome |-> run_on_dataset([name |-> "d", df |-> df],
                                  [reference_fields |-> {}], anomaly_cfg,
                                  faults, preds, nulls_equal) ]
    /\ UNCHANGED <<df, source, notAssistantVars>>

RunInit ==
    /\ MapperInit
    /\ agg = NoAgg
    /\ df \in RunFrames \cup {RowIdxFrame}
    /\ detection = NoDetection
    /\ recognition = NoRecognition
    /\ source = NoSource
    /\ assistant = NoAssistant

RunNext == RunOnDataset

SpecRun == RunInit /\ [][RunNext]_vars

\* ------------------------------------------------------------------------
\* run_on_dataset on datasets with and without a numeric column
\* ------------------------------------------------------------------------

\* two text columns, no numeric column; a row may hold a null
TextOnlyFrames ==
    {MakeFrame(<<"s", "t">>, [s |-> "Utf8", t |-> "Utf8"], rows) :
        rows \in SeqsUpTo({[s |-> Str("abc"), t |-> Str("abc")],
                           [s |-> PlNull,     t |-> Str("abc")]},
                          MaxRunRows)}

\* the frames with numeric columns of at most one row
ShortRunFrames == {frame \in RunFrames : Len(frame.rows) <= 1}

EitherInit ==
    /\ MapperInit
    /\ agg = NoAgg
    /\ df \in TextOnlyFrames \cup ShortRunFrames
    /\ detection = NoDetection
    /\ recognition = NoRecognition
    /\ source = NoSource
    /\ assistant = NoAssistant

SpecEither == EitherInit /\ [][RunNext]_vars

\* ------------------------------------------------------------------------
\* run_on_dataset with the language-model client
\* ------------------------------------------------------------------------

\* what a call of the client does: it returns a text, returns None, or raises
ClientOutcomes == {"text", "None", "raises"}

\* a client: what summarize_table, generate_column_description and
\* explain_anomalies do
Clients == [summary : ClientOutcomes, description : ClientOutcomes,
            explanation : ClientOutcomes]

\* llm_insights = {"descriptions": {}, "summary": None, ...}
NoInsights == [descriptions |-> [c \in {} |-> ""], summary |-> "None"]

\* what the client returned: the text, or None
Returned(outcome, text) == IF outcome = "text" THEN text ELSE "None"

\* the try block ran to its end with this value
Completed(value) == [raised |-> "none", value |-> value]

\* mutant: the exception of the client is not caught
Uncaught(value) == [raised |-> "Exception", value |-> value]

\* except Exception as e: logger.error(...), and the value kept so far
Caught(value) == [raised |-> "none", value |-> value]

\* the columns that get a description: those without a semantic type
Described(refined, semantic_types) ==
    {c \in Range(refined.columns) : c \notin DOMAIN semantic_types}

\* the LLM enrichment block: the summary, then one description per column
\* that has no semantic type; a description that is None is not recorded
Enrichment(llm, refined, semantic_types) ==
    IF llm.summary = "raises" THEN Caught(NoInsights)
    ELSE IF Described(refined, semantic_types) # {} /\ llm.description = "raises"
    THEN Caught([NoInsights EXCEPT !.summary = Returned(llm.summary, "summary")])
    ELSE Completed([ descriptions |->
                        IF llm.description = "text"
                        THEN [c \in Described(refined, semantic_types) |->
                                 "description"]
                        ELSE NoInsights.descriptions,
                     summary |-> Returned(llm.summary, "summary") ])

\* the anomaly explanation: asked for when a method has preview rows, which
\* it has when it has rows
Explanation(llm, anomaly_rows) ==
    IF DOMAIN anomaly_rows = {} THEN Completed("None")
    ELSE IF llm.explanation = "raises" THEN Caught("None")
    ELSE Completed(Returned(llm.explanation, "explanation"))

\* the report with llm_insights, or the exception that left run_on_dataset
Enriched(report, enrichment, explanation) ==
    IF report.raised # "none" THEN report
    ELSE IF enrichment.raised # "none" THEN [raised |-> enrichment.raised]
    ELSE IF explanation.raised # "none" THEN [raised |-> explanation.raised]
    ELSE [f \in (DOMAIN report) \cup {"llm_insights"} |->
             IF f = "llm_insights"
             THEN [ descriptions |-> enrichment.value.descriptions,
                    summary |-> enrichment.value.summary,
                    anomaly_explanation |-> explanation.value ]
             ELSE report[f]]

\* the enrichment and the explanation of a report that was computed
WithClient(report, refined, llm) ==
    IF report.raised # "none" THEN report
    ELSE Enriched(report, Enrichment(llm, refined, report.semantic_types),
                  Explanation(llm, report.anomaly_rows))

\* run_on_dataset(dataset, mapping_cfg, anomaly_cfg) with the client llm
run_on_dataset_llm(dataset, mapping_cfg, anomaly_cfg, preds, nulls_equal, llm) ==
    WithClient(run_on_dataset(dataset, mapping_cfg, anomaly_cfg, NoFaults, preds,
                              nulls_equal),
               refine_types(dataset.df), llm)

\* the default configuration and one with a low z threshold
ClientConfigs == {[DefaultAnomalyConfig EXCEPT !.z_threshold = z] : z \in {1, 6}}

RunWithClient ==
    /\ assistant = NoAssistant
    /\ \E anomaly_cfg \in ClientConfigs, llm \in Clients, nulls_equal \in BOOLEAN :
          \E preds \in RunLabels(refine_types(df)) :
             assistant' =
                [ fn |-> "run_on_dataset",
                  anomaly_cfg |-> anomaly_cfg,
                  faults |-> NoFaults,
                  preds |-> preds,
                  nulls_equal |-> nulls_equal,
                  llm |-> llm,
                  outcome |-> run_on_dataset_llm([name |-> "d", df |-> df],
                                  [reference_fields |-> {}], anomaly_cfg,
                                  preds, nulls_equal, llm) ]
    /\ UNCHANGED <<df, source, notAssistantVars>>

\* a dataset with an e-mail column, which has a semantic type
MailFrame ==
    MakeFrame(<<"email", "x">>, [email |-> "Utf8", x |-> "Float64"],
              << [email |-> Str("a@example.com"), x |-> Num(10)] >>)

ClientInit ==
    /\ MapperInit
    /\ agg = NoAgg
    /\ df \in ShortRunFrames \cup TextOnlyFrames \cup {RowIdxFrame, MailFrame}
    /\ detection = NoDetection
    /\ recognition = NoRecognition
    /\ source = NoSource
    /\ assistant = NoAssistant

ClientNext == RunWithClient

SpecClient == ClientInit /\ [][ClientNext]_vars

\* ------------------------------------------------------------------------
\* Specification of the data sources: iter_datasets, one next() at a time
\* ------------------------------------------------------------------------

\* the most paths under the root of a local source
MaxFiles == 2

\* two text columns, no numeric column
PeopleFrame ==
    MakeFrame(<<"email", "name">>, [c \in {"email", "name"} |-> "Utf8"],
              << [email |-> Str("abc"), name |-> Str("abc")] >>)

\* two numeric columns
OrdersFrame ==
    MakeFrame(<<"id", "x">>, [id |-> "Int64", x |-> "Float64"],
              << [id |-> Num(1), x |-> Num(10)] >>)

NoRead == ReadRaises("unused", "")

\* the paths a walk of the root may meet, and what reading each gives
FilePool ==
    { [name |-> "a.csv", suffix |-> ".csv", is_file |-> TRUE,
       header |-> ReadOk(PeopleFrame), fallback |-> NoRead],
      [name |-> "b.parquet", suffix |-> ".parquet", is_file |-> TRUE,
       header |-> ReadOk(OrdersFrame), fallback |-> NoRead],
      [name |-> "c.csv", suffix |-> ".csv", is_file |-> TRUE,
       header |-> ReadRaises("ComputeError", "could not parse"),
       fallback |-> ReadOk(PeopleFrame)],
      [name |-> "d.csv", suffix |-> ".csv", is_file |-> TRUE,
       header |-> ReadRaises("ComputeError", "could not parse"),
       fallback |-> ReadRaises("ComputeError", "could not parse again")],
      [name |-> "e.parquet", suffix |-> ".parquet", is_file |-> TRUE,
       header |-> ReadRaises("OSError", "not a parquet file"), fallback |-> NoRead],
      [name |-> "f.csv", suffix |-> ".csv", is_file |-> TRUE,
       header |-> ReadRaises("NoDataError", "empty CSV"),
       fallback |-> ReadOk(PeopleFrame)],
      [name |-> "r.parquet", suffix |-> ".parquet", is_file |-> TRUE,
       header |-> ReadOk(RowIdxFrame), fallback |-> NoRead],
      [name |-> "notes.txt", suffix |-> ".txt", is_file |-> TRUE,
       header |-> NoRead, fallback |-> NoRead],
      [name |-> "sub.csv", suffix |-> ".csv", is_file |-> FALSE,
       header |-> NoRead, fallback |-> NoRead] }

\* the walks: each path at most once
FileLists ==
    {files \in SeqsUpTo(FilePool, MaxFiles) :
        \A i, j \in 1..Len(files) : i # j => files[i] # files[j]}

LocalSources ==
    {[kind |-> "local", status |-> "running", files |-> files, pos |-> 0,
      yielded |-> << >>] : files \in FileLists}

\* the discovery query: the table names, or a failure
Discoveries ==
    {[raised |-> "none", table_names |-> names] :
        names \in {<< >>, <<"t1">>, <<"t1", "t2">>}}
    \cup {ReadRaises("ConnectionError", "unreachable")}

\* query and schema arguments, with the empty and the blank string
SqlSources ==
    {[kind |-> "sql", status |-> "running", stage |-> "start",
      schema |-> Normalized(schema), query |-> Normalized(query),
      name |-> "lakehouse_query", discovery |-> discovery,
      tables |-> [t1 |-> t1, t2 |-> t2], single |-> single,
      pos |-> 0, yielded |-> << >>] :
        schema \in {None, "", "s"}, query \in {None, " ", "q"},
        discovery \in Discoveries,
        t1 \in {ReadOk(PeopleFrame), ReadRaises("RuntimeError", "no access")},
        t2 \in {ReadOk(OrdersFrame), ReadRaises("RuntimeError", "timeout")},
        single \in {ReadOk(OrdersFrame), ReadRaises("RuntimeError", "syntax error")}}

Yield(self, dataset) == [self EXCEPT !.yielded = Append(@, dataset)]

\* LocalFilesDataSource.iter_datasets up to its next yield, k being the
\* next path that is read
LocalStep(self, k) ==
    IF k = 0 THEN [self EXCEPT !.status = "exhausted", !.pos = Len(self.files)]
    ELSE [Yield(self, YieldedForFile(self.files[k], ReadFile(self.files[k])))
             EXCEPT !.pos = k]

LocalFilesNext ==
    /\ source.kind = "local"
    /\ source.status = "running"
    /\ source' = LocalStep(source, NextRead(source.files, source.pos))
    /\ UNCHANGED <<assistant, df, notAssistantVars>>

\* _iter_schema_tables up to its next yield
SchemaStep(self) ==
    IF self.stage = "start" /\ self.discovery.raised # "none"
    THEN [Yield(self, DiscoveryErrorDataset(self.schema, self.discovery.message))
             EXCEPT !.stage = "done"]
    ELSE IF self.stage = "done" \/ self.pos >= Len(self.discovery.table_names)
    THEN [self EXCEPT !.status = "exhausted"]
    ELSE [Yield(self, _fetch_table(self.schema,
                                   self.discovery.table_names[self.pos + 1],
                                   self.tables[self.discovery.table_names[self.pos + 1]]))
             EXCEPT !.stage = "tables", !.pos = self.pos + 1]

SchemaTablesNext ==
    /\ source.kind = "sql"
    /\ source.status = "running"
    /\ source.schema # None
    /\ source' = SchemaStep(source)
    /\ UNCHANGED <<assistant, df, notAssistantVars>>

\* _iter_single_query up to its next yield
SingleQueryStep(self) ==
    IF self.stage = "done" THEN [self EXCEPT !.status = "exhausted"]
    ELSE [Yield(self, SingleQueryDataset(self.name, self.single))
             EXCEPT !.stage = "done"]

SingleQueryNext ==
    /\ source.kind = "sql"
    /\ source.status = "running"
    /\ source.schema = None
    /\ source.query # None
    /\ source' = SingleQueryStep(source)
    /\ UNCHANGED <<assistant, df, notAssistantVars>>

\* raise ValueError("Either 'query' or 'schema' must be provided")
NeitherQueryNorSchema ==
    /\ source.kind = "sql"
    /\ source.status = "running"
    /\ source.schema = None
    /\ source.query = None
    /\ source' = [source EXCEPT !.status = "raised"]
    /\ UNCHANGED <<assistant, df, notAssistantVars>>

SourceInit ==
    /\ MapperInit
    /\ agg = NoAgg
    /\ df = ExampleFrame
    /\ detection = NoDetection
    /\ recognition = NoRecognition
    /\ source \in LocalSources \cup SqlSources
    /\ assistant = NoAssistant

SourceNext ==
    LocalFilesNext \/ SchemaTablesNext \/ SingleQueryNext \/ NeitherQueryNorSchema

SpecSource == SourceInit /\ [][SourceNext]_vars

\* ------------------------------------------------------------------------
\* Specification of run_assistant: buffer the datasets, then one dataset
\* at a time
\* ------------------------------------------------------------------------

\* the reference fields the user supplies
UserFields == {{}, {"email"}, {"email", "phone"}}

\* global_columns: the column names of all datasets
GlobalColumns(all_datasets) ==
    UNION {Range(all_datasets[i].df.columns) : i \in 1..Len(all_datasets)}

\* mutant: every column of the vocabulary stays a reference field
DynamicRefsWithOwn(reference_fields, global_columns, current_cols) ==
    reference_fields \cup global_columns

\* dynamic_refs = set(mapping_cfg.reference_fields) | other_table_cols, where
\* other_table_cols = global_columns - current_cols
DynamicRefs(reference_fields, global_columns, current_cols) ==
    reference_fields \cup (global_columns \ current_cols)

\* run_assistant(source, mapping_cfg, anomaly_cfg): the call, up to
\* source.iter_datasets()
RunAssistant ==
    /\ assistant = NoAssistant
    /\ source.status = "created"
    /\ \E reference_fields \in UserFields :
          assistant' = [ fn |-> "run_assistant",
                         pc |-> "listing",
                         reference_fields |-> reference_fields,
                         anomaly_cfg |-> DefaultAnomalyConfig,
                         all_datasets |-> << >>,
                         global_columns |-> {},
                         handed |-> << >>,
                         datasets_reports |-> << >>,
                         raised |-> "none" ]
    /\ source' = [source EXCEPT !.status = "running"]
    /\ UNCHANGED <<df, notAssistantVars>>

\* all_datasets = list(source.iter_datasets()) has consumed the generator;
\* then the global column vocabulary. An exception of the generator leaves
\* run_assistant
Buffer ==
    /\ assistant.fn = "run_assistant"
    /\ assistant.pc = "listing"
    /\ source.status \in {"exhausted", "raised"}
    /\ assistant' =
          IF source.status = "raised"
          THEN [assistant EXCEPT !.pc = "raised", !.raised = "ValueError"]
          ELSE [assistant EXCEPT !.pc = "loop",
                                 !.all_datasets = source.yielded,
                                 !.global_columns = GlobalColumns(source.yielded)]
    /\ UNCHANGED <<source, df, notAssistantVars>>

\* the loop body for a dataset: report is what run_on_dataset returns for it,
\* or the exception it raises, which nothing in run_assistant catches
Processed(self, refs, report) ==
    IF report.raised # "none"
    THEN [self EXCEPT !.pc = "raised", !.raised = report.raised,
                      !.handed = Append(@, refs)]
    ELSE [self EXCEPT !.handed = Append(@, refs),
                      !.datasets_reports = Append(@, report)]

\* the dataset the loop is at
Current(self) == self.all_datasets[Len(self.handed) + 1]

Process ==
    /\ assistant.fn = "run_assistant"
    /\ assistant.pc = "loop"
    /\ Len(assistant.handed) < Len(assistant.all_datasets)
    /\ \E nulls_equal \in BOOLEAN :
       \E preds \in RunLabels(refine_types(Current(assistant).df)) :
          assistant' =
             Processed(assistant,
                DynamicRefs(assistant.reference_fields, assistant.global_columns,
                            Range(Current(assistant).df.columns)),
                run_on_dataset(Current(assistant),
                    [reference_fields |->
                        DynamicRefs(assistant.reference_fields,
                                    assistant.global_columns,
                                    Range(Current(assistant).df.columns))],
                    assistant.anomaly_cfg, NoFaults, preds, nulls_equal))
    /\ UNCHANGED <<source, df, notAssistantVars>>

\* return AssistantReport(data_root=..., datasets=datasets_reports)
Return ==
    /\ assistant.fn = "run_assistant"
    /\ assistant.pc = "loop"
    /\ Len(assistant.handed) = Len(assistant.all_datasets)
    /\ assistant' = [assistant EXCEPT !.pc = "returned"]
    /\ UNCHANGED <<source, df, notAssistantVars>>

AssistantInit ==
    /\ MapperInit
    /\ agg = NoAgg
    /\ df = ExampleFrame
    /\ detection = NoDetection
    /\ recognition = NoRecognition
    /\ source \in {[src EXCEPT !.status = "created"] : src \in LocalSources \cup SqlSources}
    /\ assistant = NoAssistant

AssistantNext ==
    \/ RunAssistant
    \/ LocalFilesNext
    \/ SchemaTablesNext
    \/ SingleQueryNext
    \/ NeitherQueryNorSchema
    \/ Buffer
    \/ Process
    \/ Return

SpecAssistant == AssistantInit /\ [][AssistantNext]_vars

\* ------------------------------------------------------------------------
\* Properties of map_columns
\* ------------------------------------------------------------------------

Calls == {calls[i] : i \in 1..Len(calls)}

Columns(c) == Range(c.table.columns)

\* the ranked candidates of a column at a call
CandidatesAt(c, col) == _scores_for_column(c.self, col, SeriesOf(c.table, col))

Occurrences(s, x) == Cardinality({i \in 1..Len(s) : s[i] = x})

InMapping(c, col) == col \in DOMAIN c.result.mapping

InAmbiguous(c, col) == col \in DOMAIN c.result.ambiguous

InUnmapped(c, col) == col \in Range(c.result.unmapped)

\* C1: after map_columns every input column is in exactly one of mapping (as
\* key), ambiguous (as key) and unmapped (as element, once), and the three hold
\* no name that is not an input column.
C1_Partition ==
    \A c \in Calls :
        /\ (DOMAIN c.result.mapping) \cup (DOMAIN c.result.ambiguous)
              \cup Range(c.result.unmapped) = Columns(c)
        /\ \A col \in Columns(c) :
              /\ Cardinality({k \in {"m", "a", "u"} :
                    \/ k = "m" /\ InMapping(c, col)
                    \/ k = "a" /\ InAmbiguous(c, col)
                    \/ k = "u" /\ InUnmapped(c, col)}) = 1
              /\ Occurrences(c.result.unmapped, col) <= 1

\* a two-column call that maps one column and reports the other ambiguous
C1_Witness ==
    \E c \in Calls :
        /\ Len(c.table.columns) = 2
        /\ DOMAIN c.result.mapping # {}
        /\ DOMAIN c.result.ambiguous # {}

\* top accepted, a second candidate within epsilon, and the two reference
\* names not equal ignoring letter case
AmbiguityCase(c, col) ==
    LET cands == CandidatesAt(c, col)
    IN  /\ Len(cands) >= 2
        /\ cands[1].score >= c.self.threshold
        /\ cands[1].score - cands[2].score <= c.self.epsilon
        /\ Lower(cands[1].ref) # Lower(cands[2].ref)

Descending(list) ==
    \A i \in 1..(Len(list) - 1) : list[i].score >= list[i + 1].score

\* C2: with force off a column is in ambiguous iff its top candidate is
\* accepted, a second candidate exists within epsilon of it and the
\* duplicate-reference exception (names equal ignoring case) does not apply; an
\* ambiguous column is not in mapping and is listed with at most 5 candidates,
\* the best ranked ones in descending score order; every other accepted column
\* is in mapping with the top candidate's reference field as target.
C2_AmbiguousIff ==
    \A c \in Calls : ~c.self.force =>
        \A col \in Columns(c) :
            LET cands == CandidatesAt(c, col)
                listed == c.result.ambiguous[col]
            IN  /\ InAmbiguous(c, col) <=> AmbiguityCase(c, col)
                /\ InAmbiguous(c, col) =>
                      /\ ~InMapping(c, col)
                      /\ Len(listed) <= 5
                      /\ Len(listed) = Min2(5, Len(cands))
                      /\ Descending(listed)
                      /\ \A i \in 1..Len(listed) :
                            /\ listed[i].target = cands[i].ref
                            /\ listed[i].score = cands[i].score
                /\ (cands # << >> /\ cands[1].score >= c.self.threshold
                      /\ ~AmbiguityCase(c, col)) =>
                      /\ InMapping(c, col)
                      /\ c.result.mapping[col].target = cands[1].ref

\* an ambiguous column with six candidates, five of them listed, beside a
\* column that is mapped
C2_Witness ==
    \E c \in Calls :
        /\ ~c.self.force
        /\ \E col \in Columns(c) :
              /\ InAmbiguous(c, col)
              /\ Len(CandidatesAt(c, col)) = 6
              /\ Len(c.result.ambiguous[col]) = 5
        /\ DOMAIN c.result.mapping # {}

\* accepted, a second candidate within epsilon
TieCase(c, col) ==
    LET cands == CandidatesAt(c, col)
    IN  /\ Len(cands) >= 2
        /\ cands[1].score >= c.self.threshold
        /\ cands[1].score - cands[2].score <= c.self.epsilon

MappedToTop(c, col) ==
    /\ InMapping(c, col)
    /\ c.result.mapping[col].target = CandidatesAt(c, col)[1].ref
    /\ ~InAmbiguous(c, col)
    /\ ~InUnmapped(c, col)

\* the test's call: reference_fields [EMAIL, email], default threshold and
\* epsilon, a frame with the column Email holding e-mail addresses
EmailExample(c) ==
    /\ c.self.reference_fields = <<n_EMAIL, n_email>>
    /\ c.self.threshold = Pct(72)
    /\ c.self.epsilon = Pct(3)
    /\ c.table.kind = "df"
    /\ n_Email \in Columns(c)

\* C3 as stated: whenever the top two reference names are equal after
\* normalize_name, an accepted column within epsilon is mapped to the top
\* candidate and not flagged ambiguous.
C3_AsStated ==
    \A c \in Calls : ~c.self.force =>
        \A col \in Columns(c) :
            (/\ TieCase(c, col)
             /\ normalize_name(CandidatesAt(c, col)[1].ref)
                  = normalize_name(CandidatesAt(c, col)[2].ref))
            => MappedToTop(c, col)

\* C3 amended: whenever the top two reference names are equal ignoring letter
\* case (str.lower), an accepted column within epsilon is mapped to the top
\* candidate and is neither ambiguous nor unmapped; and with reference_fields
\* [EMAIL, email] the column Email holding e-mail addresses is mapped to a
\* target equal to email ignoring case.
C3_DuplicateReference ==
    \A c \in Calls :
        /\ ~c.self.force =>
              \A col \in Columns(c) :
                  (/\ TieCase(c, col)
                   /\ Lower(CandidatesAt(c, col)[1].ref)
                        = Lower(CandidatesAt(c, col)[2].ref))
                  => MappedToTop(c, col)
        /\ EmailExample(c) =>
              /\ InMapping(c, n_Email)
              /\ Lower(c.result.mapping[n_Email].target) = n_email
              /\ ~InAmbiguous(c, n_Email)
              /\ ~InUnmapped(c, n_Email)

\* the exception applies: EMAIL and email rank first and second within
\* epsilon, and the column is mapped
C3_Witness ==
    \E c \in Calls :
        /\ ~c.self.force
        /\ \E col \in Columns(c) :
              /\ TieCase(c, col)
              /\ CandidatesAt(c, col)[1].ref # CandidatesAt(c, col)[2].ref
              /\ Lower(CandidatesAt(c, col)[1].ref) = Lower(CandidatesAt(c, col)[2].ref)
              /\ InMapping(c, col)

\* the test's call: the sole reference phone, threshold 0.99, the column
\* phone_number
PhoneExample(c) ==
    /\ c.self.reference_fields = <<n_phone>>
    /\ c.self.threshold = Pct(99)
    /\ c.table.columns = <<n_phone_number>>

\* C4: a column is unmapped iff no reference field is configured or its best
\* candidate scores strictly below threshold; an unmapped column is neither in
\* mapping nor in ambiguous; phone_number against the sole reference phone
\* with threshold 0.99 is unmapped and mapping is empty.
C4_UnmappedIff ==
    \A c \in Calls :
        /\ \A col \in Columns(c) :
              LET cands == CandidatesAt(c, col)
                  below == cands = << >> \/ cands[1].score < c.self.threshold
              IN  /\ InUnmapped(c, col) <=> below
                  /\ (c.self.reference_fields = << >>) <=> (cands = << >>)
                  /\ below => ~InMapping(c, col) /\ ~InAmbiguous(c, col)
        /\ PhoneExample(c) =>
              /\ c.result.unmapped = <<n_phone_number>>
              /\ DOMAIN c.result.mapping = {}

\* the test's call has been made, and phone_number is unmapped
C4_Witness ==
    \E c \in Calls : PhoneExample(c) /\ c.table.kind = "df"
                       /\ InUnmapped(c, n_phone_number)


\* ------------------------------------------------------------------------
\* Properties of aggregate_score and of repeated runs
\* ------------------------------------------------------------------------

MaxOfSet(S) == CHOOSE m \in S : \A x \in S : m >= x

\* max(exact, norm_exact, synonym, jaccard, seq) + dtype_boost + pattern_boost
\* + length_penalty, a missing signal counting 0
RawScore(a) ==
    MaxOfSet({Component(a.components, k) :
                k \in {"exact", "norm_exact", "synonym", "jaccard", "seq"}})
    + a.dtype_boost + a.pattern_boost + Component(a.components, "length_penalty")

InUnitInterval(x) == 0 <= x /\ x <= One

\* C5: aggregate_score returns the raw score clamped to [0,1]: whatever the
\* signals and boosts, 0 <= score <= 1; and every candidate score map_columns
\* records lies in [0,1].
C5_ScoreClamped ==
    /\ agg.called =>
          /\ InUnitInterval(agg.result.score)
          /\ agg.result.score = (IF RawScore(agg) < 0 THEN 0
                                 ELSE IF RawScore(agg) > One THEN One
                                 ELSE RawScore(agg))
          /\ agg.result.details.final = agg.result.score
    /\ \A c \in Calls :
          /\ \A col \in DOMAIN c.result.scores :
                \A ref \in DOMAIN c.result.scores[col] :
                    InUnitInterval(c.result.scores[col][ref])
          /\ \A col \in DOMAIN c.result.mapping :
                InUnitInterval(c.result.mapping[col].score)
          /\ \A col \in DOMAIN c.result.ambiguous :
                \A i \in 1..Len(c.result.ambiguous[col]) :
                    InUnitInterval(c.result.ambiguous[col][i].score)

\* a call whose raw score is negative and is returned as 0
C5_Witness ==
    /\ agg.called
    /\ RawScore(agg) < 0
    /\ Component(agg.components, "exact") < 0
    /\ agg.result.score = 0

SameOutcome(r1, r2) ==
    /\ DOMAIN r1.mapping = DOMAIN r2.mapping
    /\ \A col \in DOMAIN r1.mapping : r1.mapping[col].target = r2.mapping[col].target
    /\ DOMAIN r1.ambiguous = DOMAIN r2.ambiguous
    /\ r1.unmapped = r2.unmapped

\* C6: two runs with identical configuration (reference fields, synonyms,
\* threshold, epsilon) on the same table, on one instance or on two, give the
\* same mapping / ambiguous / unmapped partition and the same targets.
C6_Deterministic ==
    \A i, j \in 1..Len(calls) :
        (/\ i < j
         /\ mappers[calls[i].mapper].args = mappers[calls[j].mapper].args
         /\ calls[i].table = calls[j].table)
        => SameOutcome(calls[i].result, calls[j].result)

\* ------------------------------------------------------------------------
\* Properties of the anomaly detectors
\* ------------------------------------------------------------------------

\* detector fn has run and returned a frame
DetectedBy(fn) == detection.fn = fn /\ detection.raised = ""

\* the rows of df at the positions idx, in the original order
RowsAt(idx) == Pick(df.rows, idx, 1)

\* the positions whose value in the column is a number: not null, not NaN
Present(col) == {i \in 1..Len(df.rows) : IsNum(df.rows[i][col])}

ValueAt(col, i) == df.rows[i][col].num

RECURSIVE SetSum(_, _)
SetSum(S, f) ==
    IF S = {} THEN 0
    ELSE LET i == CHOOSE x \in S : TRUE IN f[i] + SetSum(S \ {i}, f)

\* with n values, sum S and sum of squares Q over the non-missing values:
\* mean = S / n and stddev^2 = Q / n - mean^2, so stddev = 0 iff n * Q = S^2,
\* and |v - mean| / stddev > t / 2  iff  4 * (n * v - S)^2 > t^2 * (n * Q - S^2)
ZFlagged(col, t) ==
    LET P == Present(col)
        n == Cardinality(P)
        S == SetSum(P, [i \in P |-> ValueAt(col, i)])
        Q == SetSum(P, [i \in P |-> ValueAt(col, i) * ValueAt(col, i)])
        var == n * Q - S * S
    IN  IF n = 0 \/ var = 0 THEN {}
        ELSE {i \in P : \/ t < 0
                        \/ 4 * (n * ValueAt(col, i) - S) * (n * ValueAt(col, i) - S)
                             > t * t * var}

AllEqual(col) == \A i, j \in Present(col) : ValueAt(col, i) = ValueAt(col, j)

KthSmallest(col, k) ==
    LET P == Present(col)
    IN  CHOOSE v \in {ValueAt(col, i) : i \in P} :
            /\ Cardinality({i \in P : ValueAt(col, i) < v}) < k
            /\ k <= Cardinality({i \in P : ValueAt(col, i) <= v})

\* four times the q-th quartile of the non-missing values: the value at the
\* fractional rank q * (n - 1) / 4, interpolated between its neighbours
Quartile(col, q) ==
    LET n == Cardinality(Present(col))
        lo == (q * (n - 1)) \div 4
        hi == IF lo + 1 < n THEN lo + 1 ELSE lo
        part == q * (n - 1) - 4 * lo
    IN  4 * KthSmallest(col, lo + 1)
        + part * (KthSmallest(col, hi + 1) - KthSmallest(col, lo + 1))

\* the positions strictly outside [Q1 - 1.5 * IQR, Q3 + 1.5 * IQR]; the
\* comparison is made on 8 times each side
IqrFlagged(col) ==
    LET P == Present(col)
    IN  IF P = {} THEN {}
        ELSE LET q1 == Quartile(col, 1)
                 q3 == Quartile(col, 3)
             IN  {i \in P : \/ 8 * ValueAt(col, i) < 2 * q1 - 3 * (q3 - q1)
                             \/ 8 * ValueAt(col, i) > 2 * q3 + 3 * (q3 - q1)}

\* C8: iqr_anomalies returns exactly the rows, in original order, whose
\* non-missing value lies strictly outside [Q1 - 1.5*IQR, Q3 + 1.5*IQR], Q1
\* and Q3 being the 25th and 75th percentiles of the non-missing values; a
\* missing value is never returned; an empty table, an all-missing column
\* and a constant column give zero rows; on [10.5, 12.0, 11.5, 100.0, 10.9]
\* exactly the row of 100.0.
C8_Iqr ==
    DetectedBy("iqr") =>
        LET col == detection.columns[1]
        IN  /\ detection.result.rows = RowsAt(IqrFlagged(col))
            /\ detection.result.columns = df.columns
            /\ \A k \in 1..Len(detection.result.rows) :
                   IsNum(detection.result.rows[k][col])
            /\ AllEqual(col) => detection.result.rows = << >>
            /\ (df = ExampleFrame /\ col = "x")
                   => detection.result.rows = <<ExampleFrame.rows[4]>>

\* a column with a missing value, a flagged value and values not flagged
C8_Witness ==
    /\ DetectedBy("iqr")
    /\ detection.columns = <<"x">>
    /\ \E i \in 1..Len(df.rows) : ~IsNum(df.rows[i]["x"])
    /\ Len(detection.result.rows) = 1
    /\ Cardinality(Present("x")) = 4

\* the number of missing cells of row i: a null, or "" in a text column
MissingCells(i) ==
    Cardinality({k \in 1..Len(df.columns) :
        LET cell == df.rows[i][df.columns[k]]
        IN  \/ cell = PlNull
            \/ df.dtypes[df.columns[k]] = "Utf8" /\ cell = Str("")})

\* C9: detect_missing_value_anomalies returns exactly the rows, in original
\* order and with exactly the input's columns, whose number of missing cells
\* is >= threshold; with threshold 1 on the table whose only nulls are in
\* rows 2 and 3 exactly those two rows; with a threshold above every row's
\* count, or on an empty table, zero rows.
C9_MissingRows ==
    DetectedBy("missing") =>
        LET t == detection.threshold
            hit == {i \in 1..Len(df.rows) : MissingCells(i) >= t}
        IN  /\ detection.result.columns = df.columns
            /\ detection.result.rows = RowsAt(hit)
            /\ (df = SingleNullFrame /\ t = 1)
                   => detection.result.rows = <<df.rows[3], df.rows[4]>>
            /\ (\A i \in 1..Len(df.rows) : t > MissingCells(i))
                   => detection.result.rows = << >>

\* the positions whose feature columns are all non-null
Complete(columns) ==
    {i \in 1..Len(df.rows) :
        \A k \in 1..Len(columns) : df.rows[i][columns[k]] # PlNull}

\* the rank of position i among the complete rows
RankIn(columns, i) == Cardinality({j \in Complete(columns) : j <= i})

CategoricalColumns ==
    {c \in Range(df.columns) :
        LET distinct == Cardinality({df.rows[i][c] : i \in 1..Len(df.rows)})
        IN  /\ df.dtypes[c] \in {"Utf8", "Int8", "Int16", "Int32", "Int64"}
            /\ distinct <= 100
            /\ (distinct <= 2 \/ 10 * distinct <= Len(df.rows))}

\* the number of rows holding, in column c, the value row i holds there
OccurrencesOf(c, i) ==
    Cardinality({j \in 1..Len(df.rows) : df.rows[j][c] = df.rows[i][c]})

\* C11: detect_categorical_anomalies returns exactly the rows, each once, in
\* original order and with the input's columns, that hold in at least one
\* categorical column a value whose occurrence count divided by the row
\* count is strictly below the threshold; on an empty table zero rows.
C11_CategoricalRows ==
    DetectedBy("categorical") =>
        LET t == detection.threshold
            rare == {i \in 1..Len(df.rows) :
                        \E c \in CategoricalColumns :
                            OccurrencesOf(c, i) * 100 < t * Len(df.rows)}
        IN  /\ detection.result.columns = df.columns
            /\ detection.result.rows = RowsAt(rare)
            /\ df.rows = << >> => detection.result.rows = << >>

\* ------------------------------------------------------------------------
\* Properties of SemanticTypeDetector
\* ------------------------------------------------------------------------

Labels == Range(PATTERNS)

\* the rows whose cell of column c is among the first sample_size non-null
\* cells of the column
Sampled(c) ==
    {i \in 1..Len(df.rows) :
        /\ df.rows[i][c] # PlNull
        /\ Cardinality({j \in 1..i : df.rows[j][c] # PlNull})
               <= recognition.sample_size}

\* the sampled cells that are neither empty nor blank
NonEmpty(c) == {i \in Sampled(c) : StripValue(df.rows[i][c].str) # ""}

\* the sampled cells that match the pattern of a label
Matching(c, label) ==
    {i \in NonEmpty(c) : RegexMatches(label, StripValue(df.rows[i][c].str))}

\* C12: every pattern is scored on the sampled values of a text column and
\* the column gets the label of the pattern with the highest match ratio,
\* provided that ratio exceeds 0.5 (not the first pattern in library order
\* that passes); a non-text column gets no label.
C12_BestPattern ==
    recognition.fn = "detect" =>
        \A c \in Range(df.columns) :
            IF df.dtypes[c] # "Utf8" THEN c \notin DOMAIN recognition.result
            ELSE /\ c \in DOMAIN recognition.result <=>
                        \E l \in Labels :
                            2 * Cardinality(Matching(c, l)) > Cardinality(Sampled(c))
                 /\ c \in DOMAIN recognition.result =>
                        \A l \in Labels :
                            Cardinality(Matching(c, recognition.result[c]))
                                >= Cardinality(Matching(c, l))

\* C13: a text column is labelled exactly when some pattern matches strictly
\* more than half of the sampled non-null, non-empty values, the sample
\* being the first sample_size non-null values: empty and blank values do
\* not count in the denominator.
C13_AcceptanceRatio ==
    recognition.fn = "detect" =>
        \A c \in Range(df.columns) :
            df.dtypes[c] = "Utf8" =>
                (c \in DOMAIN recognition.result <=>
                    \E l \in Labels :
                        2 * Cardinality(Matching(c, l)) > Cardinality(NonEmpty(c)))

\* ------------------------------------------------------------------------
\* Properties of refine_types
\* ------------------------------------------------------------------------

Refined == recognition.fn = "refine_types"

TextColumns == {c \in Range(df.columns) : df.dtypes[c] = "Utf8"}

\* the rows whose cell of column c is non-null and non-empty
ValidRows(c) ==
    {i \in 1..Len(df.rows) : df.rows[i][c] # PlNull /\ df.rows[i][c] # Str("")}

\* column c of the input and of the result hold the same cells
SameColumn(c) ==
    /\ recognition.result.dtypes[c] = df.dtypes[c]
    /\ \A i \in 1..Len(df.rows) : recognition.result.rows[i][c] = df.rows[i][c]

\* C14: refine_types returns a table with the row count and the column
\* names, in order, of its input; a column that was not text is unchanged; a
\* text column without a non-null, non-empty value is unchanged; and a cell
\* that was non-null and non-empty in a text column is non-null in the result.
C14_RefineFrame ==
    Refined =>
        /\ recognition.result.columns = df.columns
        /\ Len(recognition.result.rows) = Len(df.rows)
        /\ \A c \in Range(df.columns) \ TextColumns : SameColumn(c)
        /\ \A c \in TextColumns :
               /\ ValidRows(c) = {} => SameColumn(c)
               /\ \A i \in ValidRows(c) : recognition.result.rows[i][c] # PlNull

\* a re-typed column in which an empty text has become null next to a value
C14_Witness ==
    /\ Refined
    /\ recognition.result.dtypes["s"] = "Int64"
    /\ \E i, j \in 1..Len(df.rows) :
          /\ df.rows[i]["s"] = Str("")
          /\ recognition.result.rows[i]["s"] = PlNull
          /\ recognition.result.rows[j]["s"] = Num(12)

\* the texts of the valid values of column c, and in lower case
ValidTexts(c) == {df.rows[i][c].str : i \in ValidRows(c)}

\* at most 2 distinct values, all in {true,false,0,1,yes,no,t,f,y,n}
\* compared case-insensitively
BooleanTexts(c) ==
    /\ Cardinality(ValidTexts(c)) <= 2
    /\ \A t \in ValidTexts(c) :
           LowerText(t) \in {"true", "false", "0", "1", "yes", "no", "t", "f", "y", "n"}

IntegerTexts(c) == ValidTexts(c) \subseteq {"0", "1", "12"}

FloatTexts_(c) == ValidTexts(c) \subseteq {"0", "1", "12", "1.5"}

\* dates of one notation
DateTexts(c) == ValidTexts(c) = {"1990-05-15"} \/ ValidTexts(c) = {"15-05-1990"}

\* dates and datetimes of one notation
DatetimeTexts(c) ==
    \/ ValidTexts(c) \subseteq {"1990-05-15", "2023-01-15 10:30:00"}
    \/ ValidTexts(c) = {"15-05-1990"}

\* the first of Boolean, Integer, Floating-point, Date, Datetime under which
\* no valid value becomes null, text when there is none
FirstSuccessful(c) ==
    IF BooleanTexts(c) THEN "Boolean"
    ELSE IF IntegerTexts(c) THEN "Int64"
    ELSE IF FloatTexts_(c) THEN "Float64"
    ELSE IF DateTexts(c) THEN "Date"
    ELSE IF DatetimeTexts(c) THEN "Datetime"
    ELSE "Utf8"

\* C15: refine_col_type tries Boolean, Integer, Floating-point, Date and
\* Datetime in that order and returns the first cast under which no valid
\* value becomes null: integer-like texts of more than two distinct values
\* become Integer, never Float; YYYY-MM-DD texts become Date, never Datetime;
\* YYYY-MM-DD HH:MM:SS texts become Datetime; [true, false, true] becomes
\* Boolean; a column no cast succeeds on stays text.
C15_CastOrder ==
    Refined =>
        \A c \in TextColumns :
            ValidRows(c) # {} =>
                /\ recognition.result.dtypes[c] = FirstSuccessful(c)
                /\ ValidTexts(c) = {"0", "1", "12"}
                       => recognition.result.dtypes[c] = "Int64"
                /\ ValidTexts(c) = {"1990-05-15"}
                       => recognition.result.dtypes[c] = "Date"
                /\ ValidTexts(c) = {"2023-01-15 10:30:00"}
                       => recognition.result.dtypes[c] = "Datetime"
                /\ ValidTexts(c) = {"true", "false"}
                       => recognition.result.dtypes[c] = "Boolean"

\* C16: a text column whose valid values take at most 2 distinct values, all
\* in {true,false,0,1,yes,no,t,f,y,n} compared case-insensitively, is
\* re-typed Boolean, for every member of the set, t/f and y/n included.
C16_BooleanSet ==
    Refined =>
        \A c \in TextColumns :
            (ValidRows(c) # {} /\ BooleanTexts(c))
                => recognition.result.dtypes[c] = "Boolean"

\* ------------------------------------------------------------------------
\* Properties of run_on_dataset
\* ------------------------------------------------------------------------

RanOnDataset == assistant.fn = "run_on_dataset"

\* the frame the anomaly pass of the run works on
RunAnomFrame ==
    with_row_count(df.columns, refine_types(df).dtypes, refine_types(df).rows)

\* the same run with no detector invocation raising
Unfaulted ==
    run_on_dataset([name |-> "d", df |-> df], [reference_fields |-> {}],
                   assistant.anomaly_cfg, NoFaults, assistant.preds,
                   assistant.nulls_equal)

InUse(anomaly_cfg, method) ==
    CASE method = "zscore" -> anomaly_cfg.use_zscore
      [] method = "iqr" -> anomaly_cfg.use_iqr
      [] method = "isolation_forest" -> anomaly_cfg.use_isolation_forest
      [] method = "missing_values" -> anomaly_cfg.use_missing_values
      [] OTHER -> TRUE

AnomalyMethods == {"zscore", "iqr", "isolation_forest", "categorical", "missing_values"}

\* what a report says of a method: whether it has a count, the count, the rows
EntriesOf(report, method) ==
    << method \in DOMAIN report.anomalies,
       Get(report.anomalies, method),
       Get(report.anomaly_rows, method) >>

\* the detector invocations the claim is about that raise in the run
RaisingSites ==
    {site \in DOMAIN assistant.faults :
        /\ site[1] \in {"zscore", "iqr", "isolation_forest"}
        /\ InUse(assistant.anomaly_cfg, site[1])}

\* the numeric columns a per-column method still has when one is skipped
RemainingColumns(site) == SelectSeq(<<"x", "y">>, LAMBDA c : c # site[2])

\* the report of a per-column method whose invocation for one column is
\* skipped: the rows the detector finds in the remaining columns
SkippedColumn(report, site) ==
    LET found == [k \in 1..Len(RemainingColumns(site)) |->
                     PerColumnDetector(site[1], RunAnomFrame,
                                       RemainingColumns(site)[k],
                                       assistant.anomaly_cfg)]
        rows  == UNION {Range(RowIdxList(found[k])) : k \in 1..Len(found)}
    IN  /\ report.anomalies[site[1]] = SumSeq([k \in 1..Len(found) |-> Len(found[k].rows)])
        /\ Range(Get(report.anomaly_rows, site[1])) = rows

\* C19: in the anomaly pass of run_on_dataset, whatever the type of the
\* exception a z-score or IQR invocation for one column or the isolation
\* forest raises, run_on_dataset returns a report; the column is skipped and
\* the method reports the remaining columns, a failed isolation forest has the
\* count 0, and every other detector reports what it reports when nothing
\* raises.
C19_DetectorFaultsCaught ==
    RanOnDataset /\ "row_idx" \notin Range(df.columns) =>
        \A site \in RaisingSites :
            /\ assistant.outcome.raised = "none"
            /\ site[1] = "isolation_forest" =>
                   assistant.outcome.anomalies["isolation_forest"] = 0
            /\ site[1] # "isolation_forest" =>
                   SkippedColumn(assistant.outcome, site)
            /\ \A method \in AnomalyMethods \ {site[1]} :
                   EntriesOf(assistant.outcome, method) = EntriesOf(Unfaulted, method)

\* the exceptions the anomaly pass catches where a site raises
CaughtAt(site) ==
    IF site[1] = "isolation_forest" THEN CaughtForest ELSE CaughtPerColumn

\* C19 restricted to the exception types the handlers name
C19_NamedExceptionsCaught ==
    (RanOnDataset /\ \A site \in RaisingSites : assistant.faults[site] \in CaughtAt(site))
        => C19_DetectorFaultsCaught

\* a z-score invocation raises for x, is caught, and y still reports a row
C19_Witness ==
    /\ RanOnDataset
    /\ <<"zscore", "x">> \in RaisingSites
    /\ assistant.outcome.raised = "none"
    /\ assistant.outcome.anomalies["zscore"] > 0

\* ------------------------------------------------------------------------
\* Properties of the data sources
\* ------------------------------------------------------------------------

\* one thing a source reads: the name its dataset has, the outcome of the
\* read, and the marker its name gets when the read fails
Unit(base, read, marker) == [base |-> base, read |-> read, marker |-> marker]

LocalUnits(self) ==
    LET read == SelectSeq(self.files, IsRead)
    IN  [k \in 1..Len(read) |-> Unit(read[k].name, ReadFile(read[k]), " (read_error)")]

SchemaUnits(self) ==
    IF self.discovery.raised # "none"
    THEN << Unit(self.schema, self.discovery, " (discovery_error)") >>
    ELSE [k \in 1..Len(self.discovery.table_names) |->
             Unit(self.schema \o "." \o self.discovery.table_names[k],
                  self.tables[self.discovery.table_names[k]], " (error)")]

\* the files, the tables or the discovery, or the query of a source, in the
\* order they are read
Units(self) ==
    IF self.kind = "local" THEN LocalUnits(self)
    ELSE IF self.schema # None THEN SchemaUnits(self)
    ELSE IF self.query # None THEN << Unit(self.name, self.single, " (error)") >>
    ELSE << >>

\* the text of an _error cell holds the message, after a prefix or bare
HoldsMessage(cell, message) ==
    \E prefix \in {"", "Schema discovery failed: "} : cell = Str(prefix \o message)

\* the sentinel for a failed unit
IsSentinel(dataset, unit) ==
    /\ dataset.name = unit.base \o unit.marker
    /\ "_error" \in Range(dataset.df.columns)
    /\ Len(dataset.df.rows) = 1
    /\ HoldsMessage(dataset.df.rows[1]["_error"], unit.read.message)

\* the dataset of a unit that was read
IsNormal(dataset, unit) ==
    /\ dataset.name = unit.base
    /\ dataset.df = unit.read.df

\* C20: iter_datasets of the local and of the SQL source never raises on a
\* read failure: every file, query or table, or the table discovery, whose
\* read fails yields exactly one sentinel dataset, named with an error marker
\* and with an _error column holding the failure message; the other files or
\* tables are yielded as they were read, in order, and the iteration ends
\* only after the last of them.
C20_ReadFailuresYieldSentinels ==
    source.kind # "none" =>
        /\ source.status = "raised" => (source.schema = None /\ source.query = None)
        /\ Len(source.yielded) <= Len(Units(source))
        /\ \A k \in 1..Len(source.yielded) :
              IF Units(source)[k].read.raised # "none"
              THEN IsSentinel(source.yielded[k], Units(source)[k])
              ELSE IsNormal(source.yielded[k], Units(source)[k])
        /\ source.status = "exhausted" => Len(source.yielded) = Len(Units(source))

\* a walk whose first file cannot be read and whose second can, both yielded
C20_Witness ==
    /\ source.kind = "local"
    /\ source.status = "exhausted"
    /\ Len(source.yielded) = 2
    /\ source.yielded[1].name = "d.csv (read_error)"
    /\ source.yielded[2] = Dataset("b.parquet", "b.parquet", OrdersFrame)

\* ------------------------------------------------------------------------
\* Properties of run_assistant
\* ------------------------------------------------------------------------

Assisting == assistant.fn = "run_assistant"

\* the datasets run_on_dataset has been called for
Handed == IF Assisting THEN 1..Len(assistant.handed) ELSE {}

OwnColumns(i) == Range(assistant.all_datasets[i].df.columns)

\* the column names of every other dataset
OtherColumns(i) ==
    UNION {OwnColumns(j) : j \in (1..Len(assistant.all_datasets)) \ {i}}

\* C17: the reference-field set handed to the runner for dataset D is (the
\* user-supplied fields union the column names of every other dataset) minus
\* D's own column names: it holds every user field and every other-dataset
\* column that is not a column of D, and no column name of D.
C17_ReferenceFields ==
    \A i \in Handed :
        /\ assistant.handed[i] =
              (assistant.reference_fields \cup OtherColumns(i)) \ OwnColumns(i)
        /\ assistant.reference_fields \subseteq assistant.handed[i]
        /\ OtherColumns(i) \ OwnColumns(i) \subseteq assistant.handed[i]
        /\ assistant.handed[i] \cap OwnColumns(i) = {}

\* C17, amended: the set handed for dataset D is the user-supplied fields
\* union (the column names of the other datasets minus D's own column names):
\* it holds every user field and every other-dataset column that is not a
\* column of D, and the only column names of D it holds are user fields.
C17_UserFieldsKept ==
    \A i \in Handed :
        /\ assistant.handed[i] =
              assistant.reference_fields \cup (OtherColumns(i) \ OwnColumns(i))
        /\ assistant.reference_fields \subseteq assistant.handed[i]
        /\ OtherColumns(i) \ OwnColumns(i) \subseteq assistant.handed[i]
        /\ assistant.handed[i] \cap OwnColumns(i)
              = assistant.reference_fields \cap OwnColumns(i)

\* a dataset with the column email, a user field, next to another dataset:
\* its set holds email and the other dataset's id, and not its own name
C17_Witness ==
    /\ Assisting
    /\ assistant.pc = "returned"
    /\ \E i \in Handed :
          /\ OwnColumns(i) = {"email", "name"}
          /\ assistant.reference_fields = {"email", "phone"}
          /\ assistant.handed[i] = {"email", "phone", "id", "x"}

\* an error marker for a dataset in the list of reports: an entry for the
\* dataset that records the failure
IsErrorMarker(report, dataset) ==
    /\ report.name = dataset.name
    /\ report.raised # "none"

\* the datasets of the run for which run_on_dataset raises: the ones with a
\* column named row_idx
Failing == {i \in 1..Len(assistant.all_datasets) : "row_idx" \in OwnColumns(i)}

\* C18: when run_on_dataset raises for a dataset, run_assistant does not
\* raise: the remaining datasets are still processed, run_assistant returns a
\* report, and the report has an error marker for the failed dataset.
C18_DatasetFailureCaptured ==
    Assisting /\ source.status = "exhausted" =>
        /\ assistant.pc # "raised"
        /\ assistant.pc = "returned" =>
              /\ Len(assistant.handed) = Len(assistant.all_datasets)
              /\ Len(assistant.datasets_reports) = Len(assistant.all_datasets)
              /\ \A i \in Failing :
                    IsErrorMarker(assistant.datasets_reports[i],
                                  assistant.all_datasets[i])

\* C18 on the runs in which no dataset has a column named row_idx
C18_WithoutFailure ==
    (Assisting /\ Failing = {}) => C18_DatasetFailureCaptured

\* ------------------------------------------------------------------------
\* Properties of the mapper's constructor
\* ------------------------------------------------------------------------

\* the calls made on a mapper that was constructed without caller synonyms
PlainCalls == {c \in Calls : mappers[c.mapper].args.synonyms = EmptyDict}

\* C30: constructing a mapper with caller-supplied synonyms leaves the
\* module-level default synonyms, keys and alias lists, unchanged: no step
\* changes them, so after any sequence of constructions a mapper constructed
\* without caller synonyms has exactly the default aliases, and its result
\* is the one a mapper with the defaults gives.
C30_DefaultsUnchanged ==
    [][/\ DEFAULT_SYNONYMS' = DEFAULT_SYNONYMS
       /\ \A c \in PlainCalls' :
             /\ c.self.synonyms = DEFAULT_SYNONYMS
             /\ c.result = map_columns([c.self EXCEPT !.synonyms = DEFAULT_SYNONYMS],
                                       c.table)]_vars

\* C30 on the module whose synonyms file holds no alias list
C30_WithoutDefaults ==
    [][DEFAULT_SYNONYMS = EmptyDict =>
          /\ DEFAULT_SYNONYMS' = DEFAULT_SYNONYMS
          /\ \A c \in PlainCalls' : c.self.synonyms = EmptyDict]_vars

\* ------------------------------------------------------------------------
\* Properties of base_name_scores
\* ------------------------------------------------------------------------

\* base_name_scores has been called on a pair of names
Scored == "fn" \in DOMAIN agg

\* the words of the normal form of a name, stopwords included
WordsOf(name) == WordRuns(normalize_name(name), << >>)

\* the source reduces to a single token of length <= 2 that differs from the
\* reference
ShortTokenDiffers(src, ref) ==
    /\ Len(tokenize(src)) = 1
    /\ Len(tokenize(src)[1]) <= 2
    /\ tokenize(src)[1] # normalize_name(ref)

\* C23: length_penalty is -0.02 exactly when the source name reduces to a
\* single token of length <= 2 that differs from the reference, and 0
\* otherwise; the source name id has the penalty against every reference other
\* than itself, and a source whose single short token equals the reference has
\* none.
C23_LengthPenalty ==
    Scored =>
        /\ agg.result.length_penalty =
              IF ShortTokenDiffers(agg.src, agg.ref) THEN -Pct(2) ELSE 0
        /\ (agg.src = n_id /\ normalize_name(agg.ref) # n_id)
              => agg.result.length_penalty = -Pct(2)

\* C23 on the source names none of whose words is a stopword
C23_WithoutStopwords ==
    (Scored /\ \A k \in 1..Len(WordsOf(agg.src)) : NotStopword(WordsOf(agg.src)[k]))
        => C23_LengthPenalty

\* the source ab against the reference email: one short token, the penalty
C23_Witness ==
    /\ Scored
    /\ agg.src = n_ab
    /\ agg.ref = n_email
    /\ agg.result.length_penalty = -Pct(2)

\* ------------------------------------------------------------------------
\* Properties of the mapper on names that differ in letter case
\* ------------------------------------------------------------------------

\* the reference fields of the mapper of a call
RefsOf(c) == Range(c.self.reference_fields)

\* the columns of a call
ColumnsOf(c) == Range(c.table.columns)

\* the column is in mapping with a target equal to r ignoring case
MappedIgnoringCase(c, col, r) ==
    /\ col \in DOMAIN c.result.mapping
    /\ Lower(c.result.mapping[col].target) = Lower(r)

CapitalsOnlyInFront(name) == \A i \in 2..Len(name) : ~IsUpper(name[i])

\* C25 on the columns with no capital after their first character
C25_LeadingCapital ==
    \A c \in Calls : \A col \in ColumnsOf(c), r \in RefsOf(c) :
        (Lower(col) = Lower(r) /\ CapitalsOnlyInFront(col)) =>
            /\ normalize_name(col) = normalize_name(r)
            /\ base_name_scores(col, r, c.self.synonyms).norm_exact = Pct(98)
            /\ c.self.threshold = Pct(70) => MappedIgnoringCase(c, col, r)

\* the test's case: PHONE against phone is mapped at threshold 0.7, by seq
C25_Witness ==
    \E c \in Calls :
        /\ c.self.threshold = Pct(70)
        /\ n_PHONE \in ColumnsOf(c)
        /\ n_Email \in ColumnsOf(c)
        /\ MappedIgnoringCase(c, n_PHONE, n_phone)
        /\ MappedIgnoringCase(c, n_Email, n_email)
        /\ c.result.mapping[n_PHONE].score < Pct(72)

\* the call of test_mapping_from_column_list_without_df: the three review
\* columns against label, title, text with the default threshold and epsilon
ReviewCalls ==
    {c \in Calls :
        /\ c.table = ColumnList(<<n_Label, n_Title, n_ReviewText>>)
        /\ c.self.reference_fields = <<n_label, n_title, n_text>>
        /\ c.self.threshold = Pct(72)
        /\ c.self.epsilon = Pct(3)}

\* the column is in mapping with this target
MappedTo(c, col, target) ==
    /\ col \in DOMAIN c.result.mapping
    /\ c.result.mapping[col].target = target

\* C24: map_columns on the column list [Label, Title, ReviewText] with the
\* reference fields [label, title, text] and the default threshold and
\* epsilon maps ReviewText to text, the reference field that equals one of its
\* tokens, and maps Label to label and Title to title.
C24_ColumnListMapping ==
    \A c \in ReviewCalls :
        /\ MappedTo(c, n_ReviewText, n_text)
        /\ MappedTo(c, n_Label, n_label)
        /\ MappedTo(c, n_Title, n_title)

\* C24 for the two one-word columns, and what the call returns for ReviewText
C24_OneWordColumns ==
    \A c \in ReviewCalls :
        /\ MappedTo(c, n_Label, n_label)
        /\ MappedTo(c, n_Title, n_title)
        /\ c.result.unmapped = <<n_ReviewText>>
        /\ c.result.scores[n_ReviewText][n_text] = 533333

C24_Witness == ReviewCalls # {}

\* ------------------------------------------------------------------------
\* Properties of the mapper on a column named exactly as a reference field
\* ------------------------------------------------------------------------

\* the calls of mappers constructed without force
UnforcedCalls == {c \in Calls : ~c.self.force}

\* the columns of the call that are byte-identical to a reference field
ExactColumns(c) == ColumnsOf(c) \cap RefsOf(c)

\* every other reference field scores more than epsilon below 1.0
ClearOfOthers(c, col) ==
    \A r \in RefsOf(c) \ {col} : c.result.scores[col][r] < One - c.self.epsilon

Reported == RanOnDataset /\ assistant.outcome.raised = "none"

\* the entries are distinct, ascending and within [0, rows)
AscendingWithin(list, rows) ==
    /\ \A i \in 1..Len(list) : 0 <= list[i] /\ list[i] < rows
    /\ \A i \in 1..Len(list), j \in 1..Len(list) : i < j => list[i] < list[j]

\* C29: in every DatasetReport, for each method that has a row-index list,
\* anomalies[method] is the number of entries of anomaly_rows[method], and the
\* entries are distinct, ascending and within [0, rows): a row that z-score or
\* IQR flags in several numeric columns is counted once.
C29_CountIsNumberOfRows ==
    Reported =>
        \A method \in DOMAIN assistant.outcome.anomaly_rows :
            /\ assistant.outcome.anomalies[method]
                  = Len(assistant.outcome.anomaly_rows[method])
            /\ AscendingWithin(assistant.outcome.anomaly_rows[method],
                               assistant.outcome.rows)

\* C29 without the count of the per-column methods, which is at least the
\* number of rows listed
C29_RowListsAscending ==
    Reported =>
        \A method \in DOMAIN assistant.outcome.anomaly_rows :
            /\ AscendingWithin(assistant.outcome.anomaly_rows[method],
                               assistant.outcome.rows)
            /\ assistant.outcome.anomalies[method]
                  >= Len(assistant.outcome.anomaly_rows[method])
            /\ method \notin {"zscore", "iqr"} =>
                  assistant.outcome.anomalies[method]
                     = Len(assistant.outcome.anomaly_rows[method])

\* both rows are flagged by z-score, each in both numeric columns
C29_Witness ==
    /\ Reported
    /\ "zscore" \in DOMAIN assistant.outcome.anomaly_rows
    /\ assistant.outcome.anomaly_rows["zscore"] = <<0, 1>>
    /\ assistant.outcome.anomalies["zscore"] = 4

\* ------------------------------------------------------------------------
\* Properties of the detectors that need no numeric column
\* ------------------------------------------------------------------------

\* the rows of the refined frame that hold at least missing_threshold nulls,
\* by row index
RowsMeetingThreshold(refined, missing_threshold) ==
    SortedList({i - 1 : i \in {j \in 1..Len(refined.rows) :
        Cardinality({c \in Range(refined.columns) : IsNull(refined.rows[j][c])})
            >= missing_threshold}})

\* the rows the categorical detector flags in the frame of the run
CategoricalRows ==
    RowIdxList(detect_categorical_anomalies(RunAnomFrame, 1, assistant.nulls_equal))

\* the run has a report and no detector invocation raised
ReportedUnfaulted == Reported /\ assistant.faults = NoFaults

\* C26: the detectors of run_on_dataset run independently: with
\* use_missing_values, missing_values lists exactly the rows that meet
\* missing_threshold, for every dataset, one with no numeric column included,
\* and the categorical detector's rows are listed whether or not the dataset
\* has numeric columns.
C26_DetectorsIndependent ==
    ReportedUnfaulted =>
        /\ assistant.anomaly_cfg.use_missing_values =>
              Get(assistant.outcome.anomaly_rows, "missing_values")
                 = RowsMeetingThreshold(refine_types(df),
                                        assistant.anomaly_cfg.missing_threshold)
        /\ Get(assistant.outcome.anomaly_rows, "categorical") = CategoricalRows

\* the dataset of the run has a numeric column
HasNumericColumn == select_numeric_columns(RunAnomFrame, {"row_idx"}) # << >>

\* C26 on the datasets that have a numeric column
C26_WithNumericColumn ==
    (ReportedUnfaulted /\ HasNumericColumn) => C26_DetectorsIndependent

\* a dataset with a numeric column and a null: its row is listed
C26_Witness ==
    /\ ReportedUnfaulted
    /\ HasNumericColumn
    /\ Get(assistant.outcome.anomaly_rows, "missing_values") = <<0>>

\* ------------------------------------------------------------------------
\* Properties of the order in which run_assistant works
\* ------------------------------------------------------------------------

\* run_assistant has ended, by returning or by an exception
Ended == assistant.pc \in {"returned", "raised"}

\* the i-th report is the one of the i-th dataset the source yielded
ReportOfYielded(i) ==
    /\ assistant.datasets_reports[i].name = source.yielded[i].name
    /\ assistant.datasets_reports[i].rows = Len(source.yielded[i].df.rows)
    /\ assistant.handed[i]
          = DynamicRefs(assistant.reference_fields,
                        GlobalColumns(source.yielded),
                        Range(source.yielded[i].df.columns))

\* C27: run_assistant consumes iter_datasets to exhaustion and computes the
\* global column union before the first run_on_dataset call; it then calls
\* run_on_dataset exactly once per yielded dataset, one after the other in
\* yield order, and the AssistantReport holds exactly one DatasetReport per
\* dataset, in that order.
C27_BufferedThenInOrder ==
    Assisting =>
        /\ assistant.handed # << >> =>
              /\ source.status = "exhausted"
              /\ assistant.all_datasets = source.yielded
              /\ assistant.global_columns = GlobalColumns(source.yielded)
        /\ Len(assistant.handed) <= Len(source.yielded)
        /\ \A i \in 1..Len(assistant.datasets_reports) : ReportOfYielded(i)
        /\ Ended => Len(assistant.handed) = Len(source.yielded)
        /\ assistant.pc = "returned" =>
              Len(assistant.datasets_reports) = Len(source.yielded)

\* C27 on the runs in which no yielded dataset has a column named row_idx
C27_WithoutFailure ==
    (Assisting /\ \A i \in 1..Len(source.yielded) :
                     "row_idx" \notin Range(source.yielded[i].df.columns))
        => C27_BufferedThenInOrder

\* two datasets of different names, both reported, in yield order
C27_Witness ==
    /\ Assisting
    /\ assistant.pc = "returned"
    /\ Len(source.yielded) = 2
    /\ source.yielded[1].name # source.yielded[2].name
    /\ Len(assistant.datasets_reports) = 2
    /\ ReportOfYielded(1)
    /\ ReportOfYielded(2)

\* ------------------------------------------------------------------------
\* Properties of detect_anomalies
\* ------------------------------------------------------------------------

Dispatched == detection.fn = "detect_anomalies"

\* the call raised instead of returning rows
FailedFast == detection.raised # ""

\* a column the caller gave is not a column of the frame
GivenAbsent ==
    \E k \in 1..Len(detection.model.columns) :
        detection.model.columns[k] \notin Range(df.columns)

\* the first three configuration errors: an unknown method, a referenced
\* column the frame lacks, a column list that is not exactly one column for
\* z-score and IQR
NamedErrorsFail ==
    /\ detection.model.method \notin {"zscore", "iqr", "isolation_forest"}
          => detection.raised = "ValueError"
    /\ GivenAbsent => FailedFast
    /\ (detection.model.method \in {"zscore", "iqr"}
        /\ Len(detection.model.columns) # 1) => detection.raised = "ValueError"

\* C22: detect_anomalies fails fast in each configuration-error case: an
\* unknown method, a referenced column that the frame lacks, a column list
\* that is empty or not exactly one column for z-score and IQR, and an empty
\* column list for the isolation forest.
C22_FailsFast ==
    Dispatched =>
        /\ NamedErrorsFail
        /\ (detection.model.method = "isolation_forest"
            /\ detection.model.columns = << >>) => FailedFast

\* C22 without the empty column list of the isolation forest, for which
\* the numeric columns of the frame are taken and the call fails only if the
\* frame has none
C22_ExceptForestFallback ==
    Dispatched =>
        /\ NamedErrorsFail
        /\ (detection.model.method = "isolation_forest"
            /\ detection.model.columns = << >>) =>
              /\ detection.columns = select_numeric_columns(df, {})
              /\ detection.columns = << >> => detection.raised = "ValueError"

\* z-score on two columns is refused
C22_Witness ==
    /\ Dispatched
    /\ detection.model.method = "zscore"
    /\ detection.model.columns = <<"x", "y">>
    /\ detection.raised = "ValueError"

\* ------------------------------------------------------------------------
\* Properties of run_on_dataset with the language-model client
\* ------------------------------------------------------------------------

\* run_on_dataset has run with a client
RanWithClient == RanOnDataset /\ "llm" \in DOMAIN assistant

\* the report without llm_insights, or the exception
Analytical(report) ==
    IF report.raised # "none" THEN report
    ELSE [f \in (DOMAIN report) \ {"llm_insights"} |-> report[f]]

\* the same run with a client all of whose calls return a text
WithTextClient ==
    run_on_dataset_llm([name |-> "d", df |-> df], [reference_fields |-> {}],
                       assistant.anomaly_cfg, assistant.preds,
                       assistant.nulls_equal,
                       [summary |-> "text", description |-> "text",
                        explanation |-> "text"])

\* C21: for a fixed dataset and configuration every analytical field of the
\* report (schema, semantic types, anomaly counts and row indices, ...) is the
\* same whether the calls of the text-generation client return a text,
\* return None or raise; run_on_dataset returns a report in each case, and
\* only llm_insights may differ.
C21_ClientIndependent ==
    RanWithClient =>
        /\ Analytical(assistant.outcome) = Analytical(WithTextClient)
        /\ assistant.outcome.raised = WithTextClient.raised

\* the client raises in every call: the report is there, with empty insights
C21_Witness ==
    /\ RanWithClient
    /\ assistant.llm = [summary |-> "raises", description |-> "raises",
                        explanation |-> "raises"]
    /\ assistant.outcome.raised = "none"
    /\ assistant.outcome.rows = 1
    /\ assistant.outcome.llm_insights.summary = "None"
    /\ assistant.outcome.llm_insights # WithTextClient.llm_insights

============================================================================
